---- MODULE Spec2Model ----
(***************************************************************************)
(* A model of Eupheme's content negotiation (eupheme/negotiation.py,       *)
(* eupheme/mime.py), of the collaborators the Broker reads                 *)
(* (eupheme/request.py, eupheme/response.py), of its cookies and routes    *)
(* (eupheme/cookies.py, eupheme/routing.py) and of the request pipeline    *)
(* (eupheme/application.py).                                               *)
(*                                                                         *)
(* Conventions.  Python None is the empty sequence and a present value v   *)
(* is <<v>>.  A collection is the sequence of its elements in iteration    *)
(* order.  A str is the sequence of its characters, each a one-character   *)
(* string.  A call that raises is a record whose status names the         *)
(* exception class; "ok" is a normal return.                               *)
(***************************************************************************)
EXTENDS Integers, Sequences, FiniteSets, TLC

VARIABLES
    broker,     \* Broker: charsets, default_charset, methods, default_mimetype
    requested,  \* closest_match / best_offer: the requested negotiables
    offered,    \* best_offer: the offered negotiables
    accepted,   \* negotiate_charset: None or the accepted character sets
    request,    \* Request: accept, content_type, content_length, body
    endpoint,   \* endpoint: produces, consumes
    resource,   \* resource: allowed_methods, attrs (its attribute names)
    method,     \* negotiate_endpoint: the HTTP method
    input,      \* the arguments a constructor, a parser or a call is given
    objects,    \* the objects that were constructed: MimeTypes, CharacterSets,
                \* a CookieManager, a RouteManager, or an Application with
                \* the frame of its __call__
    result      \* the last call: operation, argument, outcome

vars == <<broker, requested, offered, accepted, request, endpoint, resource,
          method, input, objects, result>>

\* --------------------------------------------------------------- bounds

\* The longest collections of MimeTypes handed to closest_match/best_offer.
MaxRequested == 3
MaxOffered == 2
\* The longest request body, and the most types an endpoint consumes.
MaxBody == 2
MaxConsumes == 2
\* The longest collections of CharacterSets: those a client accepts and those
\* the server supports.
MaxAccepted == 4
MaxCharsets == 3

\* ---------------------------------------------------------- Python values

None == <<>>

Some(x) == <<x>>

\* Sequences over S of length at most n whose elements are pairwise distinct:
\* the iteration orders of the collections of at most n members of S.
DistinctSeqs(S, n) ==
    { s \in UNION { [1..k -> S] : k \in 0..n } :
        \A i, j \in DOMAIN s : i # j => s[i] # s[j] }

Range(s) == { s[i] : i \in DOMAIN s }

Min(S) == CHOOSE x \in S : \A y \in S : x <= y

Max(S) == CHOOSE x \in S : \A y \in S : x >= y

\* A call that raised: the exception class, nothing returned.
Raised(exception) == [status |-> exception, idx |-> 0, value |-> None]

\* A call that returned v.
Returned(idx, v) == [status |-> "ok", idx |-> idx, value |-> v]

\* ------------------------------------------------------------------ texts

\* A str is the sequence of its characters.  The literals of the sources and
\* of the tests:
s_text == <<"t", "e", "x", "t">>
s_html == <<"h", "t", "m", "l">>
s_plain == <<"p", "l", "a", "i", "n">>
s_image == <<"i", "m", "a", "g", "e">>
s_jpeg == <<"j", "p", "e", "g">>
s_any == <<"*">>
s_q == <<"q">>
s_level == <<"l", "e", "v", "e", "l">>
s_ascii == <<"a", "s", "c", "i", "i">>
s_iso_ir_6 == <<"i", "s", "o", "-", "i", "r", "-", "6">>
s_utf_8 == <<"u", "t", "f", "-", "8">>
s_latin_1 == <<"l", "a", "t", "i", "n", "-", "1">>
s_utf_16 == <<"u", "t", "f", "-", "1", "6">>
s_foo == <<"f", "o", "o">>
s_bar == <<"b", "a", "r">>
s_x == <<"x">>
s_y == <<"y">>
s_abc == <<"a", "b", "c">>
s_nope == <<"n", "o", "p", "e">>
s_us_ascii == <<"u", "s", "-", "a", "s", "c", "i", "i">>
s_utf8 == <<"u", "t", "f", "8">>
s_iso_8859_1 == <<"i", "s", "o", "-", "8", "8", "5", "9", "-", "1">>
s_iso8859_1 == <<"i", "s", "o", "8", "8", "5", "9", "-", "1">>

\* str.lower().
UpperCase == <<"A", "B", "C", "D", "E", "F", "G", "H", "I", "J", "K", "L", "M",
               "N", "O", "P", "Q", "R", "S", "T", "U", "V", "W", "X", "Y", "Z">>

LowerCase == <<"a", "b", "c", "d", "e", "f", "g", "h", "i", "j", "k", "l", "m",
               "n", "o", "p", "q", "r", "s", "t", "u", "v", "w", "x", "y", "z">>

LowerChar(c) ==
    IF \E i \in DOMAIN UpperCase : UpperCase[i] = c
    THEN LowerCase[CHOOSE i \in DOMAIN UpperCase : UpperCase[i] = c]
    ELSE c

Lower(text) == [i \in DOMAIN text |-> LowerChar(text[i])]

\* str.startswith(prefix).
StartsWith(text, prefix) ==
    Len(text) >= Len(prefix) /\ SubSeq(text, 1, Len(prefix)) = prefix

\* The characters str.strip() removes, of those the model writes.
Whitespace == {" ", "\t", "\n", "\r"}

\* str.strip().
RECURSIVE Strip(_)
Strip(text) ==
    IF text = <<>> THEN <<>>
    ELSE IF text[1] \in Whitespace THEN Strip(Tail(text))
    ELSE IF text[Len(text)] \in Whitespace
    THEN Strip(SubSeq(text, 1, Len(text) - 1))
    ELSE text

\* str.split(sep) for a separator of one character: the pieces between the
\* separators, the empty ones too.
RECURSIVE SplitOn(_, _, _)
SplitOn(text, sep, piece) ==
    IF text = <<>> THEN <<piece>>
    ELSE IF text[1] = sep THEN <<piece>> \o SplitOn(Tail(text), sep, <<>>)
    ELSE SplitOn(Tail(text), sep, Append(piece, text[1]))

\* What a regular expression that ends in `$` and holds no line feed matches
\* of a text: the text itself, or the text less its last line feed.  None
\* when a line feed stands elsewhere, which `.` does not match.
Dollar(text) ==
    LET core == IF text # <<>> /\ text[Len(text)] = "\n"
                THEN SubSeq(text, 1, Len(text) - 1) ELSE text
    IN  IF \E i \in DOMAIN core : core[i] = "\n" THEN None ELSE Some(core)

\* ----------------------------------------------------- decimal.Decimal(str)

Digits == {"0", "1", "2", "3", "4", "5", "6", "7", "8", "9"}

DigitVal(c) ==
    CASE c = "0" -> 0 [] c = "1" -> 1 [] c = "2" -> 2 [] c = "3" -> 3
      [] c = "4" -> 4 [] c = "5" -> 5 [] c = "6" -> 6 [] c = "7" -> 7
      [] c = "8" -> 8 [] c = "9" -> 9

RECURSIVE DigitsVal(_)
DigitsVal(s) ==
    IF s = <<>> THEN 0
    ELSE 10 * DigitsVal(SubSeq(s, 1, Len(s) - 1)) + DigitVal(s[Len(s)])

RECURSIVE Pow10(_)
Pow10(n) == IF n = 0 THEN 1 ELSE 10 * Pow10(n - 1)

\* decimal.Decimal(text) for a text of the form [sign] digits [. digits]:
\* the exact value sign * coef * 10^exp; any other text raises
\* decimal.InvalidOperation.
Decimal(text) ==
    LET signed == text # <<>> /\ text[1] \in {"+", "-"}
        body == IF signed THEN Tail(text) ELSE text
        dots == { i \in DOMAIN body : body[i] = "." }
        dot == IF dots = {} THEN Len(body) + 1 ELSE CHOOSE i \in dots : TRUE
        int == SubSeq(body, 1, dot - 1)
        frac == SubSeq(body, dot + 1, Len(body))
        wellformed ==
            /\ Cardinality(dots) <= 1
            /\ Len(int) + Len(frac) >= 1
            /\ \A i \in DOMAIN int : int[i] \in Digits
            /\ \A i \in DOMAIN frac : frac[i] \in Digits
    IN  IF wellformed
        THEN [status |-> "ok",
              sign |-> IF signed /\ text[1] = "-" THEN -1 ELSE 1,
              coef |-> DigitsVal(int \o frac),
              exp |-> -Len(frac)]
        ELSE [status |-> "InvalidOperation", sign |-> 1, coef |-> 0, exp |-> 0]

\* The integer d * 10^k for the common scale k of two decimals.
Scaled(d, e) == d.sign * d.coef * Pow10(d.exp - e)

MinExp(a, b) == IF a.exp < b.exp THEN a.exp ELSE b.exp

\* Decimal.__lt__ and Decimal.__eq__ on finite decimals.
DecLt(a, b) == Scaled(a, MinExp(a, b)) < Scaled(b, MinExp(a, b))

DecEq(a, b) == Scaled(a, MinExp(a, b)) = Scaled(b, MinExp(a, b))

\* ------------------------------------------------------- MimeParameters

\* A parameter map is the sequence of its (key, value) pairs in insertion
\* order, keys unique.
Param(k, v) == [key |-> k, value |-> v]

HasKey(params, k) == \E i \in DOMAIN params : params[i].key = k

GetItem(params, k) == params[CHOOSE i \in DOMAIN params : params[i].key = k].value

\* MimeParameters.__len__ that counts the quality as well.
ParamsLen_WithQuality(params) == Len(params)

\* MimeParameters.__len__: the number of parameters, the quality excluded.
ParamsLen(params) ==
    IF HasKey(params, s_q) THEN Len(params) - 1 ELSE Len(params)

\* MimeParameters.__le__ that does not pass over the quality.
ParamsLe_WithQuality(params, other) ==
    \A i \in DOMAIN params :
        /\ HasKey(other, params[i].key)
        /\ GetItem(other, params[i].key) = params[i].value

\* MimeParameters.__le__: every parameter but the quality is in other, with
\* the same value.
ParamsLe(params, other) ==
    \A i \in DOMAIN params :
        ~ ( /\ params[i].key # s_q
            /\ ( \/ ~ HasKey(other, params[i].key)
                 \/ GetItem(other, params[i].key) # params[i].value ) )

\* The characters the class of RE_TOKEN excludes, of those the model writes:
\* the controls and the space (\x00-\x20) and ( ) < > @ , ; : \ " / [ ] ? =.
TokenSpecials ==
    {"\t", "\n", "\r", " ", "(", ")", "<", ">", "@", ",", ";", ":", "\\", "\"",
     "/", "[", "]", "?", "="}

\* RE_TOKEN.match(text): one character or more of the class, up to `$`, that
\* is up to the end of the text or up to a line feed that ends the text.
IsToken(text) ==
    LET core == IF Len(text) >= 2 /\ text[Len(text)] = "\n"
                THEN SubSeq(text, 1, Len(text) - 1) ELSE text
    IN  core # <<>> /\ \A i \in DOMAIN core : core[i] \notin TokenSpecials

\* re.sub(r'("|\\|\r(!?\n))', r'\\\1', value): a backslash before each
\* quote and backslash, and before a carriage return that is followed by a
\* line feed or by "!" and a line feed.
RECURSIVE Escaped(_)
Escaped(text) ==
    IF text = <<>> THEN <<>>
    ELSE IF text[1] \in {"\"", "\\"}
    THEN <<"\\", text[1]>> \o Escaped(Tail(text))
    ELSE IF Len(text) >= 2 /\ text[1] = "\r" /\ text[2] = "\n"
    THEN <<"\\", "\r", "\n">> \o Escaped(SubSeq(text, 3, Len(text)))
    ELSE IF Len(text) >= 3 /\ text[1] = "\r" /\ text[2] = "!" /\ text[3] = "\n"
    THEN <<"\\", "\r", "!", "\n">> \o Escaped(SubSeq(text, 4, Len(text)))
    ELSE <<text[1]>> \o Escaped(Tail(text))

\* MimeParameters.__str__: 'key=value' joined by '; ', in insertion order; a
\* value that is no token is quoted.
RECURSIVE ParamsStr(_)
ParamsStr(params) ==
    IF params = <<>> THEN <<>>
    ELSE LET value == params[1].value
             encoded == IF IsToken(value) THEN value
                        ELSE <<"\"">> \o Escaped(value) \o <<"\"">>
         IN  params[1].key \o <<"=">> \o encoded
             \o (IF Len(params) = 1 THEN <<>>
                 ELSE <<";", " ">> \o ParamsStr(Tail(params)))

\* \w of RE_PARAMETER, over the characters the model writes.
IsWordChar(c) ==
    c \in Range(UpperCase) \cup Range(LowerCase) \cup Digits \cup {"_"}

\* The items RE_QUOTED_STRING allows between the quotes: a backslash and the
\* character after it, a carriage return and the line feed after it, or a
\* character that is no backslash, quote or carriage return.
RECURSIVE IsQuotedBody(_)
IsQuotedBody(body) ==
    IF body = <<>> THEN TRUE
    ELSE IF body[1] = "\\"
    THEN Len(body) >= 2 /\ IsQuotedBody(SubSeq(body, 3, Len(body)))
    ELSE IF body[1] = "\r"
    THEN /\ Len(body) >= 2
         /\ body[2] = "\n"
         /\ IsQuotedBody(SubSeq(body, 3, Len(body)))
    ELSE IF body[1] = "\"" THEN FALSE
    ELSE IsQuotedBody(Tail(body))

\* RE_QUOTED_STRING.match(value) for a stripped value, which ends in no line
\* feed.
IsQuotedString(value) ==
    /\ Len(value) >= 2
    /\ value[1] = "\""
    /\ value[Len(value)] = "\""
    /\ IsQuotedBody(SubSeq(value, 2, Len(value) - 1))

\* re.sub(r'\\(.)', r'\1', text): a backslash goes and the character after it
\* stays, unless that character is a line feed.
RECURSIVE Unescaped(_)
Unescaped(text) ==
    IF text = <<>> THEN <<>>
    ELSE IF text[1] = "\\" /\ Len(text) >= 2 /\ text[2] # "\n"
    THEN <<text[2]>> \o Unescaped(SubSeq(text, 3, Len(text)))
    ELSE <<text[1]>> \o Unescaped(Tail(text))

\* MimeParameters.__setitem__ on the dict: a new key goes last, a key that is
\* there keeps its place and takes the value.
SetItem(params, k, v) ==
    IF HasKey(params, k)
    THEN [i \in DOMAIN params |->
            IF params[i].key = k THEN Param(k, v) ELSE params[i]]
    ELSE Append(params, Param(k, v))

\* The loop of MimeParameters.__init__ over encoded.split(';').
RECURSIVE ParseParameters(_, _)
ParseParameters(pieces, params) ==
    IF pieces = <<>> THEN Returned(0, params)
    ELSE LET parameter == Strip(pieces[1])
             eqs == { i \in DOMAIN parameter : parameter[i] = "=" }
             eq == IF eqs = {} THEN 0 ELSE Min(eqs)
             key == SubSeq(parameter, 1, eq - 1)
             value == SubSeq(parameter, eq + 1, Len(parameter))
         IN  IF parameter = <<>> THEN ParseParameters(Tail(pieces), params)
             ELSE IF \/ eq <= 1
                     \/ \E i \in DOMAIN key : ~ IsWordChar(key[i])
             THEN Raised("ValueError")
             ELSE IF IsToken(value)
             THEN ParseParameters(Tail(pieces), SetItem(params, key, value))
             ELSE IF IsQuotedString(value)
             THEN ParseParameters(
                      Tail(pieces),
                      SetItem(params, key,
                              Unescaped(SubSeq(value, 2, Len(value) - 1))))
             ELSE Raised("ValueError")

\* MimeParameters(encoded): the parameters parsed from encoded, none when
\* encoded is None; ValueError for a parameter that is malformed.
MimeParameters(encoded) ==
    IF encoded = None THEN Returned(0, <<>>)
    ELSE ParseParameters(SplitOn(encoded[1], ";", <<>>), <<>>)

\* ------------------------------------------------------------ Negotiable

\* Negotiable.quality whose value on KeyError is Decimal('0').
quality_AbsentAsZero(n) ==
    IF HasKey(n.parameters, s_q)
    THEN Decimal(GetItem(n.parameters, s_q))
    ELSE Decimal(<<"0">>)

\* Negotiable.quality: Decimal(parameters['q']), Decimal('1') on KeyError.
quality(n) ==
    IF HasKey(n.parameters, s_q)
    THEN Decimal(GetItem(n.parameters, s_q))
    ELSE Decimal(<<"1">>)

\* ---------------------------------------------------------------- MimeType

MimeType(t, s, params) ==
    [kind |-> "mime", type |-> t, subtype |-> s, parameters |-> params]

\* MimeType.__contains__ that tests the subtype wildcard before the types.
MimeContains_SubtypeFirst(self, other) ==
    IF self.type = s_any THEN TRUE
    ELSE IF self.subtype = s_any THEN TRUE
    ELSE IF self.type # other.type THEN FALSE
    ELSE IF self.subtype # other.subtype THEN FALSE
    ELSE ParamsLe(self.parameters, other.parameters)

\* MimeType.__contains__(self, other): other satisfies self.
MimeContains(self, other) ==
    IF self.type = s_any THEN TRUE
    ELSE IF self.type # other.type THEN FALSE
    ELSE IF self.subtype = s_any THEN TRUE
    ELSE IF self.subtype # other.subtype THEN FALSE
    ELSE ParamsLe(self.parameters, other.parameters)

\* MimeType.__gt__ without its subtype rule: text/html no longer beats text/*.
MimeGt_NoSubtypeRule(self, other) ==
    IF other.type = s_any /\ self.type # s_any THEN TRUE
    ELSE ParamsLen(self.parameters) > ParamsLen(other.parameters)

\* MimeType.__gt__(self, other): self is stricter than other.
MimeGt(self, other) ==
    IF other.type = s_any /\ self.type # s_any THEN TRUE
    ELSE IF other.subtype = s_any /\ self.subtype # s_any THEN TRUE
    ELSE ParamsLen(self.parameters) > ParamsLen(other.parameters)

\* MimeType.__str__: 'type/subtype' when the quality is the only parameter or
\* there is none, else 'type/subtype; parameters'.
MimeStr(self) ==
    IF ParamsLen(self.parameters) = 0
    THEN self.type \o <<"/">> \o self.subtype
    ELSE self.type \o <<"/">> \o self.subtype \o <<";", " ">>
         \o ParamsStr(self.parameters)

\* MimeType.__eq__ (and __hash__): the string forms are equal.
MimeEq(self, other) == MimeStr(self) = MimeStr(other)

\* MimeType.MEDIA_TYPES.
MEDIA_TYPES ==
    { <<"a", "p", "p", "l", "i", "c", "a", "t", "i", "o", "n">>,
      <<"a", "u", "d", "i", "o">>,
      <<"e", "x", "a", "m", "p", "l", "e">>,
      s_image,
      <<"m", "e", "s", "s", "a", "g", "e">>,
      <<"m", "o", "d", "e", "l">>,
      <<"m", "u", "l", "t", "i", "p", "a", "r", "t">>,
      s_text,
      <<"v", "i", "d", "e", "o">> }

\* MimeType.media_type_valid(value).
media_type_valid(value) ==
    \/ value = s_any
    \/ value \in MEDIA_TYPES
    \/ StartsWith(Lower(value), <<"x", "-">>)

\* MimeType(type_, subtype, **parameters), the call: the object, or the
\* ValueError of __init__.
MimeType_init(type_, subtype, parameters) ==
    IF ~ IsToken(type_) THEN Raised("ValueError")
    ELSE IF ~ IsToken(subtype) THEN Raised("ValueError")
    ELSE IF ~ media_type_valid(type_) THEN Raised("ValueError")
    ELSE IF type_ = s_any /\ subtype # s_any THEN Raised("ValueError")
    ELSE Returned(0, Some(MimeType(type_, subtype, parameters)))

\* MimeType.parse(encoded).  RE_MIMETYPE gives the type all up to the last
\* '/' that something follows, the subtype what follows up to the first ';'
\* after its first character, and the parameters the rest.
MimeType_parse(encoded) ==
    LET core == Dollar(encoded)
        text == IF core = None THEN <<>> ELSE core[1]
        slashes == { p \in 2..(Len(text) - 1) : text[p] = "/" }
        slash == IF slashes = {} THEN 0 ELSE Max(slashes)
        rest == SubSeq(text, slash + 1, Len(text))
        semis == { k \in 2..Len(rest) : rest[k] = ";" }
        semi == IF semis = {} THEN Len(rest) + 1 ELSE Min(semis)
        mimetype == MimeType_init(SubSeq(text, 1, slash - 1),
                                  SubSeq(rest, 1, semi - 1), <<>>)
        parameters ==
            MimeParameters(IF semis = {} THEN None
                           ELSE Some(SubSeq(rest, semi, Len(rest))))
    IN  IF slashes = {} THEN Raised("ValueError")
        ELSE IF mimetype.status # "ok" THEN mimetype
        ELSE IF parameters.status # "ok" THEN Raised(parameters.status)
        ELSE Returned(0, Some([mimetype.value[1] EXCEPT
                                  !.parameters = parameters.value]))

\* ------------------------------------------------------------ CharacterSet

\* codecs.lookup(name).name over the names the model writes: aliases resolve
\* to one canonical codec, and None stands for the LookupError of a name that
\* no codec has.
codecs_lookup(name) ==
    CASE name \in {s_ascii, s_iso_ir_6, s_us_ascii} -> s_ascii
      [] name \in {s_utf_8, s_utf8} -> s_utf_8
      [] name \in {s_latin_1, s_iso_8859_1} -> s_iso8859_1
      [] name \in {s_utf_16} -> s_utf_16
      [] OTHER -> None

\* CharacterSet.__init__(name, quality): the codec and the quality parameter.
\* The object keeps no name; the model keeps it as the object's identity, so
\* that two objects made from aliases are two members of a collection.
CharacterSet(name, q) ==
    [kind |-> "charset", name |-> name, codec |-> codecs_lookup(name),
     parameters |-> <<Param(s_q, q)>>]

\* CharacterSet(name, quality), the call: the object, or the LookupError of
\* codecs.lookup.
CharacterSet_init(name, q) ==
    IF codecs_lookup(name) = None THEN Raised("LookupError")
    ELSE Returned(0, Some(CharacterSet(name, q)))

\* CharacterSet.parse(encoded).  RE_CHARSET gives the name all up to the
\* first ';' after its first character, and the parameters the rest.
CharacterSet_parse(encoded) ==
    LET core == Dollar(encoded)
        text == IF core = None THEN <<>> ELSE core[1]
        semis == { k \in 2..Len(text) : text[k] = ";" }
        semi == IF semis = {} THEN Len(text) + 1 ELSE Min(semis)
        name == SubSeq(text, 1, semi - 1)
        charset == CharacterSet_init(name, <<"1">>)
        parameters == MimeParameters(Some(SubSeq(text, semi, Len(text))))
    IN  IF text = <<>> THEN Raised("ValueError")
        ELSE IF ~ IsToken(name) THEN Raised("ValueError")
        ELSE IF charset.status # "ok" THEN charset
        ELSE IF semis = {} THEN charset
        ELSE IF parameters.status # "ok" THEN Raised(parameters.status)
        ELSE Returned(0, Some([charset.value[1] EXCEPT
                                  !.parameters = parameters.value]))

\* CharacterSet.__contains__ that compares the names as they were given.
CharsetContains_ByName(self, other) == self.name = other.name

\* CharacterSet.__contains__: the same codec.
CharsetContains(self, other) == self.codec = other.codec

\* `offer in req`: req.__contains__(offer).
Contains(req, offer) ==
    IF req.kind = "mime" THEN MimeContains(req, offer)
    ELSE CharsetContains(req, offer)

\* `item > other` as Python evaluates it: type(item).__gt__(item, other).
\* MimeType overrides __gt__; CharacterSet defines only __lt__, so the call
\* lands in Negotiable.__gt__, which raises NotImplementedError.
Gt(item, other) ==
    IF item.kind = "mime"
    THEN [status |-> "ok", value |-> MimeGt(item, other)]
    ELSE [status |-> "NotImplementedError", value |-> FALSE]

\* ------------------------------------------------------------------ Broker

\* The indices i, in iteration order, of the requested values with
\* `offer in requested[i]`: the generator closest_match hands to max().
RECURSIVE Matching(_, _, _)
Matching(reqs, offer, i) ==
    IF i > Len(reqs) THEN <<>>
    ELSE IF Contains(reqs[i], offer)
         THEN <<i>> \o Matching(reqs, offer, i + 1)
         ELSE Matching(reqs, offer, i + 1)

\* Python's max() over the values at idxs, cur being the greatest so far: a
\* later item replaces it exactly when `item > cur` is true; an exception of
\* the comparison ends max().
RECURSIVE MaxFrom(_, _, _)
MaxFrom(reqs, idxs, cur) ==
    IF idxs = <<>> THEN [status |-> "ok", idx |-> cur]
    ELSE LET g == Gt(reqs[Head(idxs)], reqs[cur])
         IN  IF g.status # "ok" THEN [status |-> g.status, idx |-> 0]
             ELSE MaxFrom(reqs, Tail(idxs),
                          IF g.value THEN Head(idxs) ELSE cur)

\* closest_match returning the first requested value that contains the offer,
\* without comparing it with the later ones.
closest_match_First(reqs, offer) ==
    LET idxs == Matching(reqs, offer, 1)
    IN  IF idxs = <<>> THEN [status |-> "ValueError", idx |-> 0]
        ELSE [status |-> "ok", idx |-> Head(idxs)]

\* Broker.closest_match(requested, offer): max(req for req in requested if
\* offer in req); idx is the position of the value returned.  max() of
\* nothing raises ValueError.
closest_match(reqs, offer) ==
    LET idxs == Matching(reqs, offer, 1)
    IN  IF idxs = <<>> THEN [status |-> "ValueError", idx |-> 0]
        ELSE MaxFrom(reqs, Tail(idxs), Head(idxs))

\* The loop of Broker.best_offer from the i-th offer on; best is the position
\* of the best offer so far (0 is None) and best_quality its quality.
RECURSIVE BestFrom(_, _, _, _, _)
BestFrom(reqs, offs, i, best, best_quality) ==
    IF i > Len(offs) THEN [status |-> "ok", idx |-> best]
    ELSE LET match == closest_match(reqs, offs[i])
         IN  IF match.status = "ValueError"
             THEN BestFrom(reqs, offs, i + 1, best, best_quality)
             ELSE IF match.status # "ok"
             THEN [status |-> match.status, idx |-> 0]
             ELSE LET q == quality(reqs[match.idx])
                  IN  IF q.status # "ok"
                      THEN [status |-> q.status, idx |-> 0]
                      ELSE IF best = 0 \/ DecLt(best_quality, q)
                      THEN BestFrom(reqs, offs, i + 1, i, q)
                      ELSE BestFrom(reqs, offs, i + 1, best, best_quality)

\* Broker.best_offer(requested, offered); idx 0 is None.
best_offer(reqs, offs) == BestFrom(reqs, offs, 1, 0, Decimal(<<"0">>))

\* The value at a position of a collection, None for position 0.
At(s, i) == IF i = 0 THEN None ELSE Some(s[i])

\* HttpException.status of each exception class of response.py.
HttpStatus(exception) ==
    CASE exception = "HttpMovedPermanentlyException" -> "301 Moved Permanently"
      [] exception = "HttpMovedException" -> "302 Found"
      [] exception = "HttpBadRequestException" -> "400 Bad Request"
      [] exception = "HttpNotFoundException" -> "404 Not Found"
      [] exception = "HttpMethodNotAllowedException" -> "405 Method Not Allowed"
      [] exception = "HttpNotAcceptableException" -> "406 Not Acceptable"
      [] exception = "HttpUnsupportedMediaTypeException"
            -> "415 Unsupported Media Type"
      [] exception = "HttpInternalServerErrorException"
            -> "500 Internal Server Error"
      [] exception = "HttpNotImplementedException" -> "501 Not Implemented"
      [] OTHER -> "none"

\* negotiate_charset taking an absent Accept-Charset for an empty one.
negotiate_charset_AbsentAsEmpty(b, acc) ==
    LET best == best_offer(IF acc = None THEN <<>> ELSE acc[1], b.charsets)
    IN  IF best.status # "ok" THEN Raised(best.status)
        ELSE IF best.idx = 0 THEN Raised("HttpNotAcceptableException")
        ELSE Returned(best.idx, Some(b.charsets[best.idx]))

\* Broker.negotiate_charset(accepted): acc is None or <<the accepted sets>>.
negotiate_charset(b, acc) ==
    IF acc = None THEN Returned(0, b.default_charset)
    ELSE LET best == best_offer(acc[1], b.charsets)
         IN  IF best.status # "ok" THEN Raised(best.status)
             ELSE IF best.idx = 0 THEN Raised("HttpNotAcceptableException")
             ELSE Returned(best.idx, Some(b.charsets[best.idx]))

\* negotiate_output answering an empty best offer with the default mimetype.
negotiate_output_DefaultOnNone(b, req, ep) ==
    IF req.accept = None THEN Returned(0, b.default_mimetype)
    ELSE LET best == best_offer(req.accept[1], ep.produces)
         IN  IF best.status # "ok" THEN Raised(best.status)
             ELSE IF best.idx = 0 THEN Returned(0, b.default_mimetype)
             ELSE Returned(best.idx, Some(ep.produces[best.idx]))

\* Broker.negotiate_output(request, endpoint).
negotiate_output(b, req, ep) ==
    IF req.accept = None THEN Returned(0, b.default_mimetype)
    ELSE LET best == best_offer(req.accept[1], ep.produces)
         IN  IF best.status # "ok" THEN Raised(best.status)
             ELSE IF best.idx = 0 THEN Raised("HttpNotAcceptableException")
             ELSE Returned(best.idx, Some(ep.produces[best.idx]))

\* wsgi.input.read(n): at most n of the bytes not read yet, all of them for a
\* negative n; the stream moves past what it returned.
Read(body, n) ==
    LET left == Len(body.data) - body.pos
        k == IF n < 0 \/ n > left THEN left ELSE n
    IN  [bytes |-> SubSeq(body.data, body.pos + 1, body.pos + k),
         body |-> [body EXCEPT !.pos = @ + k]]

\* Request.read_entity().
read_entity(req) ==
    IF req.content_length # None
    THEN Read(req.body, req.content_length[1])
    ELSE Read(req.body, -1)

\* `content_type in consumes`: a member of the collection equals it, which
\* MimeType.__eq__ decides by the string forms (content_type is the text of
\* the header, or a MimeType, that is its string form).
InConsumes(content_type, consumes) ==
    \E j \in DOMAIN consumes : MimeStr(consumes[j]) = content_type

\* negotiate_input reading the entity before it looks at the content type.
negotiate_input_ReadFirst(req, ep) ==
    IF req.content_length = None \/ req.content_type = None
    THEN [status |-> "ok", value |-> None, request |-> req]
    ELSE LET entity == read_entity(req)
             after == [req EXCEPT !.body = entity.body]
         IN  IF ~ InConsumes(req.content_type[1], ep.consumes)
             THEN [status |-> "HttpUnsupportedMediaTypeException",
                   value |-> None, request |-> after]
             ELSE [status |-> "ok", value |-> Some(entity.bytes),
                   request |-> after]

\* Broker.negotiate_input(request, endpoint): the outcome and the request as
\* the call leaves it.
negotiate_input(req, ep) ==
    IF req.content_length = None \/ req.content_type = None
    THEN [status |-> "ok", value |-> None, request |-> req]
    ELSE IF ~ InConsumes(req.content_type[1], ep.consumes)
    THEN [status |-> "HttpUnsupportedMediaTypeException", value |-> None,
          request |-> req]
    ELSE IF req.content_length # None
    THEN LET entity == read_entity(req)
         IN  [status |-> "ok", value |-> Some(entity.bytes),
              request |-> [req EXCEPT !.body = entity.body]]
    ELSE [status |-> "ok", value |-> None, request |-> req]

\* ', '.join(items).
RECURSIVE Join(_)
Join(items) ==
    IF items = <<>> THEN <<>>
    ELSE IF Len(items) = 1 THEN items[1]
    ELSE items[1] \o <<",", " ">> \o Join(Tail(items))

\* HttpMethodNotAllowedException(allowed).headers: the Allow header.
AllowHeaders(allowed) == <<[name |-> "Allow", value |-> Join(allowed)]>>

\* negotiate_endpoint looking at the resource's allowed methods first.
negotiate_endpoint_ResourceFirst(b, m, res, iteration) ==
    IF m \notin res.allowed_methods
    THEN [status |-> "HttpMethodNotAllowedException", value |-> None,
          headers |-> AllowHeaders(iteration)]
    ELSE IF m \notin b.methods
    THEN [status |-> "HttpNotImplementedException", value |-> None,
          headers |-> <<>>]
    ELSE IF Lower(m) \in res.attrs
    THEN [status |-> "ok", value |-> Some(Lower(m)), headers |-> <<>>]
    ELSE [status |-> "HttpInternalServerErrorException", value |-> None,
          headers |-> <<>>]

\* negotiate_endpoint looking the handler up under the method as given.
negotiate_endpoint_NoLower(b, m, res, iteration) ==
    IF m \notin b.methods
    THEN [status |-> "HttpNotImplementedException", value |-> None,
          headers |-> <<>>]
    ELSE IF m \notin res.allowed_methods
    THEN [status |-> "HttpMethodNotAllowedException", value |-> None,
          headers |-> AllowHeaders(iteration)]
    ELSE IF m \in res.attrs
    THEN [status |-> "ok", value |-> Some(m), headers |-> <<>>]
    ELSE [status |-> "HttpInternalServerErrorException", value |-> None,
          headers |-> <<>>]

\* Broker.negotiate_endpoint(method, resource).  iteration is the order in
\* which the set resource.allowed_methods is iterated; the handler returned
\* is named by the attribute that holds it.
negotiate_endpoint(b, m, res, iteration) ==
    IF m \notin b.methods
    THEN [status |-> "HttpNotImplementedException", value |-> None,
          headers |-> <<>>]
    ELSE IF m \notin res.allowed_methods
    THEN [status |-> "HttpMethodNotAllowedException", value |-> None,
          headers |-> AllowHeaders(iteration)]
    ELSE IF Lower(m) \in res.attrs
    THEN [status |-> "ok", value |-> Some(Lower(m)), headers |-> <<>>]
    ELSE [status |-> "HttpInternalServerErrorException", value |-> None,
          headers |-> <<>>]

\* ----------------------------------------------------------------- Request

\* int(text) of Request.__init__, over the characters the model writes: the
\* stripped text is a sign or none and digits; ValueError otherwise.
ParseInt(text) ==
    LET stripped == Strip(text)
        signed == stripped # <<>> /\ stripped[1] \in {"+", "-"}
        digits == IF signed THEN Tail(stripped) ELSE stripped
    IN  IF digits # <<>> /\ \A i \in DOMAIN digits : digits[i] \in Digits
        THEN Returned(0, IF signed /\ stripped[1] = "-"
                         THEN 0 - DigitsVal(digits) ELSE DigitsVal(digits))
        ELSE Raised("ValueError")

\* set.add(mimetype): a MimeType that equals a member (MimeType.__eq__ and
\* __hash__, both by the string form) is not added.
SetAdd(members, mimetype) ==
    IF \E i \in DOMAIN members : MimeEq(members[i], mimetype)
    THEN members ELSE Append(members, mimetype)

\* The loop of Request.__init__ over environ['HTTP_ACCEPT'].split(','): each
\* piece stripped, parsed and added to the set; a ValueError of the parser
\* becomes HttpBadRequestException.
RECURSIVE ParseAccept(_, _)
ParseAccept(pieces, members) ==
    IF pieces = <<>> THEN Returned(0, Some(members))
    ELSE LET mimetype == MimeType_parse(Strip(pieces[1]))
         IN  IF mimetype.status = "ValueError"
             THEN Raised("HttpBadRequestException")
             ELSE ParseAccept(Tail(pieces), SetAdd(members, mimetype.value[1]))

\* The loop of Request.__init__ over environ['HTTP_ACCEPT_CHARSET']
\* .split(','): a name no codec has is passed over (LookupError), a
\* ValueError of the parser becomes HttpBadRequestException.  CharacterSet
\* defines no __eq__: every object that was parsed is a member of its own.
RECURSIVE ParseAcceptCharset(_, _)
ParseAcceptCharset(pieces, members) ==
    IF pieces = <<>> THEN Returned(0, Some(members))
    ELSE LET charset == CharacterSet_parse(Strip(pieces[1]))
         IN  IF charset.status = "LookupError"
             THEN ParseAcceptCharset(Tail(pieces), members)
             ELSE IF charset.status = "ValueError"
             THEN Raised("HttpBadRequestException")
             ELSE ParseAcceptCharset(Tail(pieces),
                                     Append(members, charset.value[1]))

\* Request(environ, start_response): the content type, the content length,
\* the accepted types and the accepted character sets of the new Request, or
\* the HttpBadRequestException of __init__.  A key of environ that is absent
\* is None.  The members of the two sets are in the order of the header.
Request(environ) ==
    LET length == IF environ.CONTENT_LENGTH = None
                     \/ environ.CONTENT_LENGTH = Some(<<>>)
                  THEN Returned(0, 0)
                  ELSE ParseInt(environ.CONTENT_LENGTH[1])
        accept == IF environ.HTTP_ACCEPT = None THEN Returned(0, None)
                  ELSE ParseAccept(SplitOn(environ.HTTP_ACCEPT[1], ",", <<>>),
                                   <<>>)
        accept_charset ==
            IF environ.HTTP_ACCEPT_CHARSET = None THEN Returned(0, None)
            ELSE ParseAcceptCharset(
                     SplitOn(environ.HTTP_ACCEPT_CHARSET[1], ",", <<>>), <<>>)
    IN  IF length.status # "ok" THEN Raised("HttpBadRequestException")
        ELSE IF accept.status # "ok" THEN Raised(accept.status)
        ELSE IF accept_charset.status # "ok" THEN Raised(accept_charset.status)
        ELSE Returned(0, Some(
                [accept |-> accept.value,
                 accept_charset |-> accept_charset.value,
                 content_type |-> environ.CONTENT_TYPE,
                 content_length |-> IF length.value = 0 THEN None
                                    ELSE Some(length.value),
                 body |-> [data |-> environ.wsgi_input, pos |-> 0]]))

\* -------------------------------------------------------------- the inputs

\* The media ranges of RFC 2616 section 14.1, as tests/test_negotiation.py
\* parses them.
text_any_q03 == MimeType(s_text, s_any, <<Param(s_q, <<"0", ".", "3">>)>>)
text_html_q07 == MimeType(s_text, s_html, <<Param(s_q, <<"0", ".", "7">>)>>)
text_html_1 == MimeType(s_text, s_html, <<Param(s_level, <<"1">>)>>)
text_html_2_q04 ==
    MimeType(s_text, s_html,
             <<Param(s_level, <<"2">>), Param(s_q, <<"0", ".", "4">>)>>)
any_any_q05 == MimeType(s_any, s_any, <<Param(s_q, <<"0", ".", "5">>)>>)

text_html_2 == MimeType(s_text, s_html, <<Param(s_level, <<"2">>)>>)
text_html_3 == MimeType(s_text, s_html, <<Param(s_level, <<"3">>)>>)
text_html == MimeType(s_text, s_html, <<>>)
text_plain == MimeType(s_text, s_plain, <<>>)
image_jpeg == MimeType(s_image, s_jpeg, <<>>)

RFCRequested ==
    <<text_any_q03, text_html_q07, text_html_1, text_html_2_q04, any_any_q05>>

RFCOffered ==
    <<text_html_1, text_html_2, text_html_3, text_html, text_plain, image_jpeg>>

RequestedMimes == Range(RFCRequested)

OfferedMimes == {text_html_1, text_html_3, text_html, text_plain, image_jpeg}

\* Character sets a client may accept, two of them aliases of one codec and
\* two of them one codec with different qualities.
AcceptedCharsets ==
    { CharacterSet(s_ascii, <<"0", ".", "5">>),
      CharacterSet(s_iso_ir_6, <<"0", ".", "5">>),
      CharacterSet(s_utf_8, <<"0", ".", "5">>),
      CharacterSet(s_utf_8, <<"1">>),
      CharacterSet(s_latin_1, <<"0", ".", "5">>) }

\* Character sets a server may support (config.py parses bare names, which
\* leaves the constructor's quality '1').
SupportedCharsets ==
    { CharacterSet(s_ascii, <<"1">>),
      CharacterSet(s_utf_8, <<"1">>),
      CharacterSet(s_latin_1, <<"1">>) }

\* ------------------------------------------------------- the idle state

NoBroker ==
    [charsets |-> None, default_charset |-> None, methods |-> {},
     default_mimetype |-> None]

NoRequest ==
    [accept |-> None, accept_charset |-> None, content_type |-> None,
     content_length |-> None, body |-> [data |-> <<>>, pos |-> 0]]

NoEndpoint == [produces |-> <<>>, consumes |-> <<>>]

NoResource == [allowed_methods |-> {}, attrs |-> {}]

Outcome(op, offer, status, idx, value, headers) ==
    [op |-> op, offer |-> offer, status |-> status, idx |-> idx,
     value |-> value, headers |-> headers]

NoCall == Outcome("none", None, "ok", 0, None, <<>>)

\* ----------------------------------- closest_match and best_offer, called

\* tests/test_negotiation.py and tests/test_charset.py: a dummy Broker, the
\* two collections given by the caller.
InitMatch ==
    /\ \/ /\ requested \in DistinctSeqs(RequestedMimes, MaxRequested)
          /\ offered \in DistinctSeqs(OfferedMimes, MaxOffered)
       \/ /\ requested \in DistinctSeqs(AcceptedCharsets, MaxAccepted)
          /\ offered \in DistinctSeqs(SupportedCharsets, MaxCharsets)
    /\ broker = NoBroker
    /\ accepted = None
    /\ request = NoRequest
    /\ endpoint = NoEndpoint
    /\ resource = NoResource
    /\ method = <<>>
    /\ input = None
    /\ objects = <<>>
    /\ result = NoCall

\* The offers closest_match may be asked about: of the kind of `requested`.
Offers ==
    IF \/ \E i \in DOMAIN requested : requested[i].kind = "charset"
       \/ \E j \in DOMAIN offered : offered[j].kind = "charset"
    THEN SupportedCharsets
    ELSE OfferedMimes \cup Range(offered)

CallClosestMatch ==
    \E offer \in Offers :
        LET match == closest_match(requested, offer)
        IN  /\ result' = Outcome("closest_match", Some(offer), match.status,
                                 match.idx, At(requested, match.idx), <<>>)
            /\ UNCHANGED <<broker, requested, offered, accepted, request,
                           endpoint, resource, method, input, objects>>

CallBestOffer ==
    LET best == best_offer(requested, offered)
    IN  /\ result' = Outcome("best_offer", None, best.status, best.idx,
                             At(offered, best.idx), <<>>)
        /\ UNCHANGED <<broker, requested, offered, accepted, request,
                       endpoint, resource, method, input, objects>>

NextMatch == CallClosestMatch \/ CallBestOffer

SpecMatch == InitMatch /\ [][NextMatch]_vars

\* The example of RFC 2616 section 14.1: the requested ranges in the order of
\* the test, the six offers in any order.
InitRFC ==
    /\ requested = RFCRequested
    /\ offered \in { s \in DistinctSeqs(Range(RFCOffered), Len(RFCOffered)) :
                       Len(s) = Len(RFCOffered) }
    /\ broker = NoBroker
    /\ accepted = None
    /\ request = NoRequest
    /\ endpoint = NoEndpoint
    /\ resource = NoResource
    /\ method = <<>>
    /\ input = None
    /\ objects = <<>>
    /\ result = NoCall

SpecRFC == InitRFC /\ [][NextMatch]_vars

\* ------------------------------------------------ negotiate_charset, called

\* A Broker as Application.__init__ builds it from the configuration, and the
\* Accept-Charset of a request: absent, or the character sets parsed from it.
InitCharset ==
    /\ \E charsets \in DistinctSeqs(SupportedCharsets, MaxCharsets),
          default \in SupportedCharsets \cup {CharacterSet(s_utf_16, <<"1">>)} :
          broker = [charsets |-> charsets, default_charset |-> Some(default),
                    methods |-> {}, default_mimetype |-> Some(text_html)]
    /\ accepted \in
          {None} \cup { Some(a) : a \in DistinctSeqs(AcceptedCharsets, MaxAccepted) }
    /\ requested = <<>>
    /\ offered = <<>>
    /\ request = [NoRequest EXCEPT !.accept_charset = accepted]
    /\ endpoint = NoEndpoint
    /\ resource = NoResource
    /\ method = <<>>
    /\ input = None
    /\ objects = <<>>
    /\ result = NoCall

CallNegotiateCharset ==
    LET out == negotiate_charset(broker, accepted)
    IN  /\ result' = Outcome("negotiate_charset", None, out.status, out.idx,
                             out.value, <<>>)
        /\ UNCHANGED <<broker, requested, offered, accepted, request,
                       endpoint, resource, method, input, objects>>

SpecCharset == InitCharset /\ [][CallNegotiateCharset]_vars

\* ------------------------------------------------- negotiate_output, called

\* The Accept of a request: absent, or the set of the MimeTypes parsed from
\* it, no two of them equal; an endpoint with the types it produces.
InitOutput ==
    /\ \E default \in {text_html, text_plain} :
          broker = [charsets |-> <<CharacterSet(s_utf_8, <<"1">>)>>,
                    default_charset |-> Some(CharacterSet(s_utf_8, <<"1">>)),
                    methods |-> {}, default_mimetype |-> Some(default)]
    /\ \E accept \in
            {None} \cup
            { Some(a) : a \in
                { d \in DistinctSeqs(RequestedMimes, MaxRequested) :
                    \A i, j \in DOMAIN d : i # j => ~ MimeEq(d[i], d[j]) } } :
          request = [NoRequest EXCEPT !.accept = accept]
    /\ \E produces \in DistinctSeqs(OfferedMimes, MaxOffered) :
          endpoint = [NoEndpoint EXCEPT !.produces = produces]
    /\ accepted = None
    /\ requested = <<>>
    /\ offered = <<>>
    /\ resource = NoResource
    /\ method = <<>>
    /\ input = None
    /\ objects = <<>>
    /\ result = NoCall

CallNegotiateOutput ==
    LET out == negotiate_output(broker, request, endpoint)
    IN  /\ result' = Outcome("negotiate_output", None, out.status, out.idx,
                             out.value, <<>>)
        /\ UNCHANGED <<broker, requested, offered, accepted, request,
                       endpoint, resource, method, input, objects>>

SpecOutput == InitOutput /\ [][CallNegotiateOutput]_vars

\* -------------------------------------------------- negotiate_input, called

\* Content types as a client writes them: the string forms of three
\* MimeTypes, one written without the space after ';', and the empty text.
ContentTypes ==
    { MimeStr(text_plain), MimeStr(text_html_1), MimeStr(image_jpeg),
      s_text \o <<"/">> \o s_html \o <<";">> \o s_level \o <<"=", "1">>, <<>> }

ConsumedMimes == {text_plain, text_html_1, text_html_q07}

Bytes == {"a", "b"}

\* A request as Request.__init__ leaves it: the content length None or a
\* non-zero integer, the content type None or the text of the header, the
\* body not read yet.
InitInput ==
    /\ \E data \in UNION { [1..k -> Bytes] : k \in 0..MaxBody },
          content_length \in
              {None} \cup { Some(n) : n \in (1..(MaxBody + 1)) \cup {-1} },
          content_type \in {None} \cup { Some(t) : t \in ContentTypes } :
          request = [NoRequest EXCEPT !.content_type = content_type,
                                      !.content_length = content_length,
                                      !.body = [data |-> data, pos |-> 0]]
    /\ \E consumes \in DistinctSeqs(ConsumedMimes, MaxConsumes) :
          endpoint = [NoEndpoint EXCEPT !.consumes = consumes]
    /\ broker = NoBroker
    /\ accepted = None
    /\ requested = <<>>
    /\ offered = <<>>
    /\ resource = NoResource
    /\ method = <<>>
    /\ input = None
    /\ objects = <<>>
    /\ result = NoCall

CallNegotiateInput ==
    LET out == negotiate_input(request, endpoint)
    IN  /\ result' = Outcome("negotiate_input", None, out.status, 0,
                             out.value, <<>>)
        /\ request' = out.request
        /\ UNCHANGED <<broker, requested, offered, accepted, endpoint,
                       resource, method, input, objects>>

SpecInput == InitInput /\ [][CallNegotiateInput]_vars

\* ----------------------------------------------- negotiate_endpoint, called

GET == <<"G", "E", "T">>
POST == <<"P", "O", "S", "T">>
PUT == <<"P", "U", "T">>
DELETE == <<"D", "E", "L", "E", "T", "E">>
PATCH == <<"P", "A", "T", "C", "H">>
Get == <<"G", "e", "t">>

\* The orders in which a set may be iterated.
Iterations(S) ==
    { f \in [1..Cardinality(S) -> S] :
        \A i, j \in DOMAIN f : i # j => f[i] # f[j] }

\* A Broker with its server-wide methods, a resource with its allowed methods
\* and the attributes it has, and the method of a request.
InitEndpoint ==
    /\ \E methods \in SUBSET {GET, POST, PUT, Get} :
          broker = [charsets |-> <<CharacterSet(s_utf_8, <<"1">>)>>,
                    default_charset |-> Some(CharacterSet(s_utf_8, <<"1">>)),
                    methods |-> methods, default_mimetype |-> Some(text_html)]
    /\ \E allowed \in SUBSET {GET, POST, DELETE, Get},
          attrs \in SUBSET {Lower(GET), Lower(POST), GET} :
          resource = [allowed_methods |-> allowed, attrs |-> attrs]
    /\ method \in {GET, POST, PUT, DELETE, PATCH, Get}
    /\ accepted = None
    /\ requested = <<>>
    /\ offered = <<>>
    /\ request = NoRequest
    /\ endpoint = NoEndpoint
    /\ input = None
    /\ objects = <<>>
    /\ result = NoCall

CallNegotiateEndpoint ==
    \E iteration \in Iterations(resource.allowed_methods) :
        LET out == negotiate_endpoint(broker, method, resource, iteration)
        IN  /\ result' = Outcome("negotiate_endpoint", None, out.status, 0,
                                 out.value, out.headers)
            /\ UNCHANGED <<broker, requested, offered, accepted, request,
                           endpoint, resource, method, input, objects>>

SpecEndpoint == InitEndpoint /\ [][CallNegotiateEndpoint]_vars

\* ------------------------------------- MimeTypes and CharacterSets, compared

\* 'type/subtype' and ';key=value' as a header writes them.
Slash(type_, subtype) == type_ \o <<"/">> \o subtype

Parameter(key, value) == <<";">> \o key \o <<"=">> \o value

\* The media ranges and types of tests/test_negotiation.py and
\* tests/test_mimetype.py, each with and without parameters and a quality.
MimeHeads ==
    { Slash(s_any, s_any), Slash(s_text, s_any), Slash(s_text, s_plain),
      Slash(s_text, s_html), Slash(s_image, s_jpeg) }

MimeTails ==
    { <<>>,
      Parameter(s_foo, s_x),
      Parameter(s_foo, s_y),
      Parameter(s_foo, s_x) \o Parameter(s_bar, s_y),
      Parameter(s_bar, s_y) \o Parameter(s_foo, s_x),
      Parameter(s_q, <<"0", ".", "5">>),
      Parameter(s_q, <<"0", ".", "7">>),
      Parameter(s_foo, s_x) \o Parameter(s_q, <<"0", ".", "5">>) }

\* The MimeTypes MimeType.parse makes of them.
MimeTypes ==
    { MimeType_parse(h \o t).value[1] : h \in MimeHeads, t \in MimeTails }

\* The CharacterSets CharacterSet.parse makes of the names of
\* tests/test_charset.py, with and without a quality.
CharacterSets ==
    { CharacterSet_parse(n \o t).value[1] :
        n \in {s_ascii, s_iso_ir_6, s_utf_8, s_latin_1},
        t \in { <<>>, Parameter(s_q, <<"0", ".", "5">>),
                Parameter(s_q, <<"0", ".", "7">>) } }

\* Two MimeTypes or two CharacterSets, self and other.
InitNegotiable ==
    /\ \/ objects \in MimeTypes \X MimeTypes
       \/ objects \in CharacterSets \X CharacterSets
    /\ broker = NoBroker
    /\ requested = <<>>
    /\ offered = <<>>
    /\ accepted = None
    /\ request = NoRequest
    /\ endpoint = NoEndpoint
    /\ resource = NoResource
    /\ method = <<>>
    /\ input = None
    /\ result = NoCall

\* `other in self`.
CallContains ==
    /\ result' = Outcome("contains", None, "ok", 0,
                         Some(Contains(objects[1], objects[2])), <<>>)
    /\ UNCHANGED <<broker, requested, offered, accepted, request, endpoint,
                   resource, method, input, objects>>

\* `self > other`.
CallGt ==
    LET gt == Gt(objects[1], objects[2])
    IN  /\ result' = Outcome("gt", None, gt.status, 0,
                             IF gt.status = "ok" THEN Some(gt.value) ELSE None,
                             <<>>)
        /\ UNCHANGED <<broker, requested, offered, accepted, request,
                       endpoint, resource, method, input, objects>>

\* `self == other` of two MimeTypes.
CallEq ==
    /\ objects[1].kind = "mime"
    /\ result' = Outcome("eq", None, "ok", 0,
                         Some(MimeEq(objects[1], objects[2])), <<>>)
    /\ UNCHANGED <<broker, requested, offered, accepted, request, endpoint,
                   resource, method, input, objects>>

\* str(self) of a MimeType.
CallStr ==
    /\ objects[1].kind = "mime"
    /\ result' = Outcome("str", None, "ok", 0, Some(MimeStr(objects[1])), <<>>)
    /\ UNCHANGED <<broker, requested, offered, accepted, request, endpoint,
                   resource, method, input, objects>>

\* self.quality of the first object there is.
CallQuality ==
    /\ objects # <<>>
    /\ LET q == quality(objects[1])
       IN  result' = Outcome("quality", None, q.status, 0,
                             IF q.status = "ok" THEN Some(q) ELSE None, <<>>)
    /\ UNCHANGED <<broker, requested, offered, accepted, request, endpoint,
                   resource, method, input, objects>>

NextNegotiable == CallContains \/ CallGt \/ CallEq \/ CallStr \/ CallQuality

SpecNegotiable == InitNegotiable /\ [][NextNegotiable]_vars

\* --------------------------------- MimeTypes and CharacterSets, constructed

\* Tokens and texts that are no tokens, for a type and a subtype.
TypeTexts ==
    { s_text, s_any, s_foo, <<"x", "-", "a">>, <<"X", "-", "a">>,
      <<"t", "e", " ", "x", "t">>, s_text \o <<"\n">>,
      <<"x", "-", "a", "\n">>, <<>> }

SubtypeTexts ==
    { s_html, s_any, s_plain \o <<"\n">>, <<"a", " ", "b">>, <<"a", "/", "b">>,
      <<>> }

\* What a caller or a header may write for a quality.
QualityTexts ==
    { <<"1">>, <<"0">>, <<"0", ".", "5">>, <<"0", ".", "5", "0">>,
      <<"1", ".", "0", "0", "0">>, <<"0", ".", "3">>, <<"2">>,
      <<"1", ".", "5">>, <<"-", "1">>, s_abc }

ParseTails ==
    { <<>>, Parameter(s_level, <<"1">>), <<";">> \o s_q }
    \cup { Parameter(s_q, q) : q \in QualityTexts }
    \cup { Parameter(s_level, <<"1">>) \o Parameter(s_q, q) :
             q \in {<<"0", ".", "5">>, <<"2">>} }

CharsetNames == {s_ascii, s_iso_ir_6, s_utf_8, s_nope, <<"a", "s", " ", "c">>}

\* The arguments of one call of a constructor or of a parser.
InitConstruct ==
    /\ \/ \E type_ \in TypeTexts, subtype \in SubtypeTexts,
             parameters \in { <<>>, <<Param(s_level, <<"1">>)>> }
                            \cup { <<Param(s_q, q)>> : q \in QualityTexts } :
             input = Some([call |-> "MimeType",
                           args |-> <<type_, subtype, parameters>>])
       \/ \E type_ \in TypeTexts, subtype \in SubtypeTexts, t \in ParseTails :
             input = Some([call |-> "MimeType.parse",
                           args |-> <<Slash(type_, subtype) \o t>>])
       \/ \E name \in CharsetNames, q \in QualityTexts :
             input = Some([call |-> "CharacterSet", args |-> <<name, q>>])
       \/ \E name \in CharsetNames, t \in ParseTails :
             input = Some([call |-> "CharacterSet.parse",
                           args |-> <<name \o t>>])
    /\ objects = <<>>
    /\ broker = NoBroker
    /\ requested = <<>>
    /\ offered = <<>>
    /\ accepted = None
    /\ request = NoRequest
    /\ endpoint = NoEndpoint
    /\ resource = NoResource
    /\ method = <<>>
    /\ result = NoCall

\* The call returns the new object, or raises and leaves none.
Constructed(call, made) ==
    /\ result.op = "none"
    /\ input[1].call = call
    /\ result' = Outcome(call, None, made.status, 0, made.value, <<>>)
    /\ objects' = IF made.status = "ok" THEN <<made.value[1]>> ELSE <<>>
    /\ UNCHANGED <<broker, requested, offered, accepted, request, endpoint,
                   resource, method, input>>

CallMimeType ==
    Constructed("MimeType",
                MimeType_init(input[1].args[1], input[1].args[2],
                              input[1].args[3]))

CallMimeTypeParse ==
    Constructed("MimeType.parse", MimeType_parse(input[1].args[1]))

CallCharacterSet ==
    Constructed("CharacterSet",
                CharacterSet_init(input[1].args[1], input[1].args[2]))

CallCharacterSetParse ==
    Constructed("CharacterSet.parse", CharacterSet_parse(input[1].args[1]))

NextConstruct ==
    \/ CallMimeType
    \/ CallMimeTypeParse
    \/ CallCharacterSet
    \/ CallCharacterSetParse
    \/ CallQuality

SpecConstruct == InitConstruct /\ [][NextConstruct]_vars

\* ------------------------------------------------------ Request, constructed

\* What an Accept header may list.
AcceptEntries ==
    { Slash(s_text, s_html),
      Slash(s_text, s_html) \o Parameter(s_q, <<"0", ".", "7">>),
      Slash(s_text, s_html) \o Parameter(s_q, <<"0", ".", "3">>),
      Slash(s_text, s_html) \o Parameter(s_level, <<"1">>),
      Slash(s_text, s_html) \o Parameter(s_level, <<"1">>)
          \o Parameter(s_q, <<"0", ".", "7">>),
      Slash(s_text, s_plain),
      Slash(s_any, s_html),
      <<>> }

AcceptHeaders ==
    AcceptEntries
    \cup { a \o <<",", " ">> \o b : a \in AcceptEntries, b \in AcceptEntries }

\* What an Accept-Charset header may list: names that are known, unknown and
\* no tokens, with parameters that are well-formed, malformed and absent.
AcceptCharsetEntries ==
    { s_ascii,
      s_iso_ir_6 \o Parameter(s_q, <<"0", ".", "5">>),
      s_utf_8 \o <<";">> \o s_q,
      s_nope,
      s_nope \o <<";">> \o s_q,
      <<"a", "s", " ", "c">> }

AcceptCharsetHeaders ==
    AcceptCharsetEntries
    \cup { a \o <<",", " ">> \o b :
             a \in AcceptCharsetEntries, b \in AcceptCharsetEntries }
    \cup { s_nope \o <<",">> \o s_utf_8 \o Parameter(s_q, <<"0", ".", "5">>),
           s_ascii \o <<",">> }

\* The environ of a request: a header that is absent is None.
InitRequest ==
    /\ \E http_accept \in {None} \cup { Some(h) : h \in AcceptHeaders },
          http_accept_charset \in
              {None} \cup { Some(h) : h \in AcceptCharsetHeaders },
          content_type \in {None, Some(Slash(s_text, s_html))},
          content_length \in {None, Some(<<>>), Some(<<"0">>), Some(<<"2">>),
                              Some(s_abc)} :
          input = Some([HTTP_ACCEPT |-> http_accept,
                        HTTP_ACCEPT_CHARSET |-> http_accept_charset,
                        CONTENT_TYPE |-> content_type,
                        CONTENT_LENGTH |-> content_length,
                        wsgi_input |-> <<"a", "b">>])
    /\ request = NoRequest
    /\ objects = <<>>
    /\ broker = NoBroker
    /\ requested = <<>>
    /\ offered = <<>>
    /\ accepted = None
    /\ endpoint = NoEndpoint
    /\ resource = NoResource
    /\ method = <<>>
    /\ result = NoCall

\* Request(environ, start_response).
CallRequest ==
    /\ result.op = "none"
    /\ result' = Outcome("Request", None, Request(input[1]).status, 0, None,
                         <<>>)
    /\ request' = IF Request(input[1]).status = "ok"
                  THEN Request(input[1]).value[1] ELSE request
    /\ UNCHANGED <<broker, requested, offered, accepted, endpoint, resource,
                   method, input, objects>>

SpecRequest == InitRequest /\ [][CallRequest]_vars

\* ------------------------------------------- MimeParameters, written and read

\* MimeParameters(encoded, **parameters): the keyword arguments are stored
\* first, each by __setitem__, then the parameters parsed from encoded.
MimeParameters_init(encoded, parameters) ==
    IF encoded = None THEN Returned(0, parameters)
    ELSE ParseParameters(SplitOn(encoded[1], ";", <<>>), parameters)

\* The characters of the values: a token character and the characters a
\* quoted-string treats specially.
ValueChars == {"a", ";", "\"", "\\", "\r", "\n", " "}

MaxValue == 2

ParameterValues == UNION { [1..n -> ValueChars] : n \in 0..MaxValue }

\* Encoded parameters as a header writes them, tests/test_mimeparameter.py
\* among them.
EncodedParameters ==
    { s_foo \o <<"=">> \o s_bar,
      s_foo \o <<"=">> \o s_bar \o <<";", " ">> \o s_q \o <<"=", "0", ".", "5">>,
      s_foo \o <<"=", "\"", "b", "a", "r", "\"">>,
      s_foo \o <<"=", "\"", "a", " ", "\r", "\n", "\\", "\\", "\"">>,
      s_foo \o <<"=", "\"", "a", "\\", "\"", "b", "\"">>,
      s_foo \o <<"=", "\"", "a", "\\", "\r", "b", "\"">>,
      s_foo \o <<"=", "\"", "a", "\\", ";", "b", "\"">>,
      s_foo \o <<"=", "\"", "\"">>,
      s_foo \o <<"=", "b", ":", "a", "r">>,
      s_foo \o <<"=", "b", "\r", "a">> }

\* The arguments of one MimeParameters(...): keyword arguments, or a text.
InitParameters ==
    /\ \/ \E v \in ParameterValues, more \in {<<>>, <<Param(s_bar, s_x)>>} :
             input = Some([call |-> "MimeParameters",
                           args |-> <<None, <<Param(s_foo, v)>> \o more>>])
       \/ \E encoded \in EncodedParameters :
             input = Some([call |-> "MimeParameters",
                           args |-> <<Some(encoded), <<>>>>])
    /\ objects = <<>>
    /\ broker = NoBroker
    /\ requested = <<>>
    /\ offered = <<>>
    /\ accepted = None
    /\ request = NoRequest
    /\ endpoint = NoEndpoint
    /\ resource = NoResource
    /\ method = <<>>
    /\ result = NoCall

\* A MimeParameters call returns the new object, which joins the objects
\* there are, or raises and leaves them as they are.
ParametersMade(call, made) ==
    /\ result' = Outcome(call, None, made.status, 0, None, <<>>)
    /\ objects' = IF made.status = "ok"
                  THEN Append(objects, [kind |-> "parameters",
                                        values |-> made.value])
                  ELSE objects
    /\ UNCHANGED <<broker, requested, offered, accepted, request, endpoint,
                   resource, method, input>>

\* MimeParameters(encoded, **parameters) with the arguments of the input.
CallMimeParameters ==
    /\ result.op = "none"
    /\ ParametersMade("MimeParameters",
                      MimeParameters_init(input[1].args[1], input[1].args[2]))

\* str(parameters) of the object that was made.
CallParametersStr ==
    /\ result.op = "MimeParameters"
    /\ objects # <<>>
    /\ result' = Outcome("MimeParameters.__str__", None, "ok", 0,
                         Some(ParamsStr(objects[1].values)), <<>>)
    /\ UNCHANGED <<broker, requested, offered, accepted, request, endpoint,
                   resource, method, input, objects>>

\* MimeParameters(text) with the text str(parameters) returned.
CallMimeParametersOfStr ==
    /\ result.op = "MimeParameters.__str__"
    /\ ParametersMade("MimeParameters(str)",
                      MimeParameters_init(result.value, <<>>))

NextParameters ==
    CallMimeParameters \/ CallParametersStr \/ CallMimeParametersOfStr

SpecParameters == InitParameters /\ [][NextParameters]_vars

\* ------------------------------------- the operations of one Broker, in turn

\* One Broker, and one request with its endpoint and resource, as
\* Application.__call__ hands them to the Broker; the collections requested
\* and offered are a caller's own.  The operations are called in any order,
\* any number of times.
InitBroker ==
    /\ \E methods \in {{GET}, {GET, POST}} :
          broker = [charsets |-> <<CharacterSet(s_utf_8, <<"1">>),
                                   CharacterSet(s_ascii, <<"1">>)>>,
                    default_charset |-> Some(CharacterSet(s_utf_8, <<"1">>)),
                    methods |-> methods, default_mimetype |-> Some(text_html)]
    /\ \E accept \in {None, Some(<<text_any_q03, text_html_1>>)},
          accept_charset \in
              {None, Some(<<CharacterSet(s_ascii, <<"0", ".", "5">>)>>)},
          content_type \in
              {None, Some(MimeStr(text_plain)), Some(MimeStr(image_jpeg))},
          content_length \in {None, Some(1)},
          data \in {<<>>, <<"a", "b">>} :
          /\ request = [accept |-> accept, accept_charset |-> accept_charset,
                        content_type |-> content_type,
                        content_length |-> content_length,
                        body |-> [data |-> data, pos |-> 0]]
          /\ accepted = accept_charset
    /\ \/ requested = <<text_any_q03, text_html_1>> /\ offered = <<text_html>>
       \/ requested = <<any_any_q05>> /\ offered = <<text_plain, text_html_1>>
    /\ \E produces \in {<<text_html>>, <<image_jpeg>>} :
          endpoint = [produces |-> produces, consumes |-> <<text_plain>>]
    /\ resource = [allowed_methods |-> {GET}, attrs |-> {Lower(GET)}]
    /\ method \in {GET, POST, PUT}
    /\ input = None
    /\ objects = <<>>
    /\ result = NoCall

NextBroker ==
    \/ CallClosestMatch
    \/ CallBestOffer
    \/ CallNegotiateEndpoint
    \/ CallNegotiateCharset
    \/ CallNegotiateOutput
    \/ CallNegotiateInput

SpecBroker == InitBroker /\ [][NextBroker]_vars

\* ------------------------------------------------------------ CookieManager

\* The printable characters of ASCII, from the space (32) to '~' (126); the
\* grave accent (96), which the model writes nowhere, by its name.
ASCII ==
    <<" ", "!", "\"", "#", "$", "%", "&", "'", "(", ")", "*", "+", ",", "-",
      ".", "/", "0", "1", "2", "3", "4", "5", "6", "7", "8", "9", ":", ";",
      "<", "=", ">", "?", "@", "A", "B", "C", "D", "E", "F", "G", "H", "I",
      "J", "K", "L", "M", "N", "O", "P", "Q", "R", "S", "T", "U", "V", "W",
      "X", "Y", "Z", "[", "\\", "]", "^", "_", "grave", "a", "b", "c", "d", "e",
      "f", "g", "h", "i", "j", "k", "l", "m", "n", "o", "p", "q", "r", "s",
      "t", "u", "v", "w", "x", "y", "z", "{", "|", "}", "~">>

\* ord(c) and chr(n) of a printable character of ASCII, which is also the
\* one byte codec.encode (utf-8) writes for it and codec.decode reads.
Ord(c) == 31 + CHOOSE i \in DOMAIN ASCII : ASCII[i] = c

Chr(n) == ASCII[n - 31]

Utf8Encode(text) == [i \in DOMAIN text |-> Ord(text[i])]

Utf8Decode(bytes) == [i \in DOMAIN bytes |-> Chr(bytes[i])]

\* The alphabet of base64.
B64Alphabet ==
    <<"A", "B", "C", "D", "E", "F", "G", "H", "I", "J", "K", "L", "M", "N",
      "O", "P", "Q", "R", "S", "T", "U", "V", "W", "X", "Y", "Z", "a", "b",
      "c", "d", "e", "f", "g", "h", "i", "j", "k", "l", "m", "n", "o", "p",
      "q", "r", "s", "t", "u", "v", "w", "x", "y", "z", "0", "1", "2", "3",
      "4", "5", "6", "7", "8", "9", "+", "/">>

B64Index(c) == (CHOOSE i \in DOMAIN B64Alphabet : B64Alphabet[i] = c) - 1

\* b64encode(bytes).decode('ascii'): three bytes give four characters, and
\* what is left of the last three is padded with '='.
RECURSIVE B64Encode(_)
B64Encode(bytes) ==
    IF bytes = <<>> THEN <<>>
    ELSE LET n == Min({3, Len(bytes)})
             bits == bytes[1] * 65536
                     + (IF n >= 2 THEN bytes[2] ELSE 0) * 256
                     + (IF n >= 3 THEN bytes[3] ELSE 0)
         IN  <<B64Alphabet[(bits \div 262144) + 1],
               B64Alphabet[((bits \div 4096) % 64) + 1],
               IF n >= 2 THEN B64Alphabet[((bits \div 64) % 64) + 1] ELSE "=",
               IF n >= 3 THEN B64Alphabet[(bits % 64) + 1] ELSE "=">>
             \o B64Encode(SubSeq(bytes, 4, Len(bytes)))

\* b64decode(text) of a text b64encode wrote: four characters give three
\* bytes, less one for each '=' of the padding.
RECURSIVE B64Decode(_)
B64Decode(text) ==
    IF Len(text) < 4 THEN <<>>
    ELSE LET pad == Cardinality({ i \in 3..4 : text[i] = "=" })
             bits == B64Index(text[1]) * 262144
                     + B64Index(text[2]) * 4096
                     + (IF text[3] = "=" THEN 0 ELSE B64Index(text[3])) * 64
                     + (IF text[4] = "=" THEN 0 ELSE B64Index(text[4]))
             bytes == <<bits \div 65536, (bits \div 256) % 256, bits % 256>>
         IN  SubSeq(bytes, 1, 3 - pad) \o B64Decode(SubSeq(text, 5, Len(text)))

\* str(n) of an integer.
RECURSIVE IntStr(_)
IntStr(n) ==
    IF n < 0 THEN <<"-">> \o IntStr(0 - n)
    ELSE IF n < 10 THEN <<Chr(48 + n)>>
    ELSE IntStr(n \div 10) \o <<Chr(48 + (n % 10))>>

\* '|'.join(parts).
RECURSIVE JoinBar(_)
JoinBar(parts) ==
    IF parts = <<>> THEN <<>>
    ELSE IF Len(parts) = 1 THEN parts[1]
    ELSE parts[1] \o <<"|">> \o JoinBar(Tail(parts))

\* hmac.new(secret, digestmod=sha224) updated with a message, and its
\* hexdigest: a text that holds no '|' and that the secret and the message
\* decide; two digests are equal only when their secrets and their messages
\* are.  The model writes the secret and the message themselves, with '#' for
\* the '|' of the message, where the code writes 56 hexadecimal digits.
Hexdigest(secret, message) ==
    <<"#">> \o secret \o <<"#">>
    \o [i \in DOMAIN message |-> IF message[i] = "|" THEN "#" ELSE message[i]]

\* signature(secret, name, value, timestamp, codec).hexdigest(), timestamp a
\* text or the text of a number: InvalidOperationException without a secret,
\* the ValueError of int(timestamp), or the digest of 'name|value|ts'.
signature(secret, name, value, timestamp) ==
    IF secret = None THEN Raised("InvalidOperationException")
    ELSE IF ParseInt(timestamp).status # "ok" THEN Raised("ValueError")
    ELSE Returned(0, Hexdigest(secret[1],
                               JoinBar(<<name, value,
                                         IntStr(ParseInt(timestamp).value)>>)))

\* signed_value(secret, name, value, timestamp, codec).
signed_value(secret, name, value, timestamp) ==
    LET encoded == B64Encode(Utf8Encode(value))
        sig == signature(secret, name, encoded, timestamp)
    IN  IF sig.status # "ok" THEN sig
        ELSE Returned(0, JoinBar(<<encoded,
                                   IntStr(ParseInt(timestamp).value),
                                   sig.value>>))

\* A CookieManager: its cookies (name and value of each Morsel, in the order of
\* the SimpleCookie), its key and whether it is read-only.
CookieManager(cookies, key, ro) ==
    [kind |-> "cookies", cookies |-> cookies, key |-> key, ro |-> ro]

\* What a method of a CookieManager returns or raises, and the manager as the
\* call leaves it.
Left(outcome, self) ==
    [status |-> outcome.status, value |-> outcome.value, self |-> self]

\* set_cookie that does not look at the read-only mode.
set_cookie_Writable(self, name, value) ==
    Left(Returned(0, None),
         [self EXCEPT !.cookies = SetItem(self.cookies, name, value)])

\* CookieManager.set_cookie(name, value).  The attributes of the Morsel
\* (domain, expires, httponly, secure) are not modelled.
set_cookie(self, name, value) ==
    IF self.ro THEN Left(Raised("InvalidOperationException"), self)
    ELSE Left(Returned(0, None),
              [self EXCEPT !.cookies = SetItem(self.cookies, name, value)])

\* CookieManager.get_cookie(name).
get_cookie(self, name) ==
    IF HasKey(self.cookies, name) THEN Some(GetItem(self.cookies, name))
    ELSE None

\* CookieManager.get_signed_cookie(name).
get_signed_cookie(self, name) ==
    LET cookie == get_cookie(self, name)
        vals == IF cookie = None THEN <<>> ELSE SplitOn(cookie[1], "|", <<>>)
        sig == signature(self.key, name, vals[1], vals[2])
    IN  IF cookie = None \/ Len(vals) # 3 THEN Left(Returned(0, None), self)
        ELSE IF sig.status # "ok" THEN Left(Raised(sig.status), self)
        ELSE IF vals[3] = sig.value
        THEN Left(Returned(0, Some(Utf8Decode(B64Decode(vals[1])))), self)
        ELSE Left(Returned(0, None), self)

\* CookieManager.set_signed_cookie(name, value) at the time `now`, in whole
\* seconds as int(time()) leaves it: the signed value is made first, then
\* set_cookie is called.
set_signed_cookie(self, name, value, now) ==
    LET signed == signed_value(self.key, name, value, IntStr(now))
    IN  IF signed.status # "ok" THEN Left(Raised(signed.status), self)
        ELSE set_cookie(self, name, signed.value)


\* ------------------------------------------------- a CookieManager, called

s_k == <<"k">>
s_K == <<"K">>

CookieNames == {s_foo, s_bar}

\* Values a caller sets: plain ones, and one of three parts that was not
\* signed.
CookieValues == {<<>>, <<"a">>, <<"a", "b">>, <<"a", "|", "b", "|", "c">>}

\* Values a caller signs: of no, one, two and three bytes, and one with '|'.
SignedValues ==
    {<<>>, <<"a">>, <<"a", "b">>, <<"a", "b", "c">>, <<"a", "|", "b">>}

\* What int(time()) may be.
Times == {1, 12}

\* The cookies a request may bring: none, a plain one, texts of three parts
\* that nobody signed, one signed under this key, one signed under another
\* key, and one that was signed under this key for another name.
LoadedCookies ==
    { <<>>,
      <<Param(s_foo, <<"a", "b">>)>>,
      <<Param(s_foo, <<"a", "|", "b", "|", "c">>)>>,
      <<Param(s_foo, <<"Y", "Q", "=", "=", "|", "1", "|", "c">>)>>,
      <<Param(s_foo, signed_value(Some(s_k), s_foo, <<"a", "b">>, <<"1">>).value)>>,
      <<Param(s_foo, signed_value(Some(s_K), s_foo, <<"a", "b">>, <<"1">>).value)>>,
      <<Param(s_foo, signed_value(Some(s_k), s_bar, <<"a", "b">>, <<"1">>).value),
        Param(s_bar, <<"a">>)>> }

\* A CookieManager as it is made: CookieManager() of a Response, without
\* cookies and writable, or CookieManager.load(..., ro=True) of a Request;
\* its key is CookieManager.key, a secret or None.
InitCookies ==
    /\ \E key \in {None, Some(s_k)} :
          \/ objects = <<CookieManager(<<>>, key, FALSE)>>
          \/ \E loaded \in LoadedCookies :
                objects = <<CookieManager(loaded, key, TRUE)>>
    /\ input = None
    /\ broker = NoBroker
    /\ requested = <<>>
    /\ offered = <<>>
    /\ accepted = None
    /\ request = NoRequest
    /\ endpoint = NoEndpoint
    /\ resource = NoResource
    /\ method = <<>>
    /\ result = NoCall

\* A method of the CookieManager was called with these arguments and left
\* this outcome.
CookieCall(call, args, left) ==
    /\ input' = Some([call |-> call, args |-> args])
    /\ result' = Outcome(call, None, left.status, 0, left.value, <<>>)
    /\ objects' = <<left.self>>
    /\ UNCHANGED <<broker, requested, offered, accepted, request, endpoint,
                   resource, method>>

CallSetCookie ==
    \E name \in CookieNames, value \in CookieValues :
        CookieCall("set_cookie", <<name, value>>,
                   set_cookie(objects[1], name, value))

CallSetSignedCookie ==
    \E name \in CookieNames, value \in SignedValues, now \in Times :
        CookieCall("set_signed_cookie", <<name, value>>,
                   set_signed_cookie(objects[1], name, value, now))

CallGetCookie ==
    \E name \in CookieNames :
        CookieCall("get_cookie", <<name>>,
                   Left(Returned(0, get_cookie(objects[1], name)), objects[1]))

CallGetSignedCookie ==
    \E name \in CookieNames :
        CookieCall("get_signed_cookie", <<name>>,
                   get_signed_cookie(objects[1], name))

NextCookies ==
    \/ CallSetCookie
    \/ CallSetSignedCookie
    \/ CallGetCookie
    \/ CallGetSignedCookie

SpecCookies == InitCookies /\ [][NextCookies]_vars

\* ------------------------------------------------------------- RouteManager

\* The group '(\d+)' as a pattern writes it.
DigitsGroup == <<"(", "\\", "d", "+", ")">>

\* How many digits a text begins with.
RECURSIVE LeadingDigits(_)
LeadingDigits(text) ==
    IF text # <<>> /\ text[1] \in Digits THEN 1 + LeadingDigits(Tail(text))
    ELSE 0

\* route.pattern.match(path) for a pattern of literal characters, groups
\* '(\d+)' and a last '$': None, or the groups of the match.  The match
\* begins where the path begins and need not reach its end; a group takes
\* the most digits with which the rest of the pattern still matches; '$'
\* matches where the path ends, or before a line feed that ends it.
RECURSIVE re_match(_, _, _)
re_match(pattern, path, groups) ==
    IF pattern = <<>> THEN Some(groups)
    ELSE IF pattern = <<"$">>
    THEN IF path \in {<<>>, <<"\n">>} THEN Some(groups) ELSE None
    ELSE IF StartsWith(pattern, DigitsGroup)
    THEN LET rest == SubSeq(pattern, Len(DigitsGroup) + 1, Len(pattern))
             Taking(k) ==
                 re_match(rest, SubSeq(path, k + 1, Len(path)),
                          Append(groups, SubSeq(path, 1, k)))
             fits == { k \in 1..LeadingDigits(path) : Taking(k) # None }
         IN  IF fits = {} THEN None ELSE Taking(Max(fits))
    ELSE IF path # <<>> /\ path[1] = pattern[1]
    THEN re_match(Tail(pattern), Tail(path), groups)
    ELSE None

\* Route(pattern, resource).
Route(pattern, res) == [pattern |-> pattern, resource |-> res]

\* RouteManager.add(pattern, resource): the routes after the call.
add(routes, pattern, res) == Append(routes, Route(pattern, res))

\* RouteManager.match that returns the last route that matches.
RECURSIVE match_Latest(_, _)
match_Latest(routes, path) ==
    IF routes = <<>> THEN Raised("HttpNotFoundException")
    ELSE IF re_match(routes[Len(routes)].pattern, path, <<>>) # None
    THEN Returned(Len(routes),
                  Some(<<routes[Len(routes)].resource,
                         re_match(routes[Len(routes)].pattern, path, <<>>)[1]>>))
    ELSE match_Latest(SubSeq(routes, 1, Len(routes) - 1), path)

\* RouteManager.match(path): the resource and the groups of the first route
\* whose pattern matches, HttpNotFoundException when the loop ends.
RECURSIVE match(_, _)
match(routes, path) ==
    IF routes = <<>> THEN Raised("HttpNotFoundException")
    ELSE IF re_match(routes[1].pattern, path, <<>>) # None
    THEN Returned(0, Some(<<routes[1].resource,
                            re_match(routes[1].pattern, path, <<>>)[1]>>))
    ELSE match(Tail(routes), path)

\* -------------------------------------------------- a RouteManager, called

\* Patterns of an application: '/', '/$', '/(\d+)' and '(\d+)1'.
Patterns ==
    { <<"/">>, <<"/", "$">>, <<"/">> \o DigitsGroup, DigitsGroup \o <<"1">> }

Resources == {"A", "B"}

MaxRoutes == 2

MaxPath == 2

Paths == UNION { [1..n -> {"/", "1"}] : n \in 0..MaxPath }

\* RouteManager(): an empty routing table.
InitRoutes ==
    /\ objects = <<[kind |-> "routes", routes |-> <<>>]>>
    /\ input = None
    /\ broker = NoBroker
    /\ requested = <<>>
    /\ offered = <<>>
    /\ accepted = None
    /\ request = NoRequest
    /\ endpoint = NoEndpoint
    /\ resource = NoResource
    /\ method = <<>>
    /\ result = NoCall

\* routes.add(pattern, resource).
CallAdd ==
    /\ Len(objects[1].routes) < MaxRoutes
    /\ \E pattern \in Patterns, res \in Resources :
          /\ input' = Some([call |-> "add", args |-> <<pattern, res>>])
          /\ objects' = <<[objects[1] EXCEPT
                             !.routes = add(@, pattern, res)]>>
          /\ result' = Outcome("add", None, "ok", 0, None, <<>>)
    /\ UNCHANGED <<broker, requested, offered, accepted, request, endpoint,
                   resource, method>>

\* routes.match(path).
CallMatch ==
    /\ \E path \in Paths :
          /\ input' = Some([call |-> "match", args |-> <<path>>])
          /\ result' = Outcome("match", None,
                               match(objects[1].routes, path).status, 0,
                               match(objects[1].routes, path).value, <<>>)
    /\ UNCHANGED <<broker, requested, offered, accepted, request, endpoint,
                   resource, method, objects>>

NextRoutes == CallAdd \/ CallMatch

SpecRoutes == InitRoutes /\ [][NextRoutes]_vars

\* ------------------------------------------ closest_match of media ranges

\* What Request makes of an Accept header that names text/* and text/html
\* with the parameters and qualities of MimeTails or with q=0.
MediaRanges ==
    { MimeType_parse(h \o t).value[1] :
        h \in {Slash(s_text, s_any), Slash(s_text, s_html)},
        t \in MimeTails \cup {Parameter(s_q, <<"0">>)} }

MaxRanges == 2

\* A dummy Broker as in tests/test_negotiation.py, `requested` a list of
\* media ranges in any order.
InitRanges ==
    /\ requested \in DistinctSeqs(MediaRanges, MaxRanges)
    /\ offered \in DistinctSeqs(OfferedMimes, MaxOffered)
    /\ broker = NoBroker
    /\ accepted = None
    /\ request = NoRequest
    /\ endpoint = NoEndpoint
    /\ resource = NoResource
    /\ method = <<>>
    /\ input = None
    /\ objects = <<>>
    /\ result = NoCall

SpecRanges == InitRanges /\ [][NextMatch]_vars

\* -------------------------------------------------- Application.__call__

\* Request.parse_path(path): urlparse(path).path, which for a path that
\* begins with one '/' and holds no ';' and no '#' is the text before its
\* first '?'.
parse_path(path) ==
    LET marks == { k \in DOMAIN path : path[k] = "?" }
    IN  IF marks = {} THEN path ELSE SubSeq(path, 1, Min(marks) - 1)

\* issubclass(exception, response.HttpException).
IsHttpException(exception) == HttpStatus(exception) # "none"

\* A call that __call__ or one of its callees made: what was called and how
\* it ended; for start_response the status it was given and the headers.
Called(call, status, headers) ==
    [call |-> call, status |-> status, headers |-> headers]

\* HttpException.as_response() answering with the default status of Response.
as_response_StatusOK(exception, headers) ==
    [status |-> "200 OK", headers |-> headers]

\* HttpException.as_response(): Response({}, status=self.status,
\* headers=self.headers).
as_response(exception, headers) ==
    [status |-> HttpStatus(exception), headers |-> headers]

\* Response.serve(start_response) of a Response without mimetype and without
\* cookies: the call start_response(self.status, list(self.headers.items())).
serve(resp) == Called("start_response", resp.status, resp.headers)

\* The frame of __call__ before its first statement.
NewFrame ==
    [pc |-> "Request", path |-> <<>>, args |-> <<>>, charset |-> None,
     mimetype |-> None, data |-> None, output |-> None, raised |-> None,
     headers |-> <<>>, calls |-> <<>>]

\* The frame after the statement `call` ended with `status`: the next
\* statement of the try block after a return, the except clause after an
\* HttpException, and out of __call__ with any other exception.
After(frame, call, status, headers, next) ==
    [frame EXCEPT
        !.calls = Append(@, Called(call, status, <<>>)),
        !.pc = IF status = "ok" THEN next
               ELSE IF IsHttpException(status) THEN "except" ELSE "raised",
        !.raised = IF status = "ok" THEN None ELSE Some(status),
        !.headers = IF status = "ok" THEN <<>> ELSE headers]

\* An Application: its routes, the endpoint its resource has for every
\* method, the content types its faucets are registered for, and what the
\* endpoint does when it is called (it returns, or it raises).
Applications ==
    { [kind |-> "application",
       routes |-> <<Route(<<"/", "$">>,
                          [allowed_methods |-> {GET}, attrs |-> {Lower(GET)}])>>,
       endpoint |-> [produces |-> <<text_html>>, consumes |-> <<text_plain>>],
       faucets_incoming |-> incoming,
       faucets_outgoing |-> outgoing,
       handler |-> handler] :
        incoming \in {{}, {MimeStr(text_plain)}},
        outgoing \in {{}, {MimeStr(text_html)}},
        handler \in {"ok", "HttpMovedException", "ValueError"} }

\* An Application as Application.__init__ leaves it with its Broker, and the
\* environ of one request, a key that is absent being None; __call__ has not
\* begun.
InitApplication ==
    /\ broker = [charsets |-> <<CharacterSet(s_utf_8, <<"1">>),
                                CharacterSet(s_ascii, <<"1">>)>>,
                 default_charset |-> Some(CharacterSet(s_utf_8, <<"1">>)),
                 methods |-> {GET, POST}, default_mimetype |-> Some(text_html)]
    /\ \E application \in Applications : objects = <<application, NewFrame>>
    /\ \E request_method \in {GET, POST, PUT},
          http_cookie \in {None, Some(<<>>)},
          path_info \in {<<"/">>, <<"/", "x">>, <<"/", "?", "x">>},
          http_accept \in {None, Some(Slash(s_text, s_html)),
                           Some(Slash(s_text, s_plain)), Some(<<>>)},
          http_accept_charset \in {None, Some(s_ascii), Some(s_nope)},
          content_type \in {None, Some(MimeStr(text_plain)),
                            Some(MimeStr(image_jpeg))},
          content_length \in {None, Some(<<"1">>), Some(s_abc)} :
          input = Some([REQUEST_METHOD |-> request_method,
                        HTTP_COOKIE |-> http_cookie,
                        PATH_INFO |-> path_info,
                        HTTP_ACCEPT |-> http_accept,
                        HTTP_ACCEPT_CHARSET |-> http_accept_charset,
                        CONTENT_TYPE |-> content_type,
                        CONTENT_LENGTH |-> content_length,
                        wsgi_input |-> <<"a", "b">>])
    /\ request = NoRequest
    /\ resource = NoResource
    /\ endpoint = NoEndpoint
    /\ method = <<>>
    /\ accepted = None
    /\ requested = <<>>
    /\ offered = <<>>
    /\ result = NoCall

\* A statement of __call__ ended: the outcome and the frame it leaves.
Stepped(call, status, value, frame) ==
    /\ result' = Outcome(call, None, status, 0, value, frame.headers)
    /\ objects' = <<objects[1], frame>>

\* request.Request(environ, start_response) of __call__.  __init__ reads
\* environ['HTTP_COOKIE'] before it parses a header: KeyError when absent.
RequestOf(environ) ==
    IF environ.HTTP_COOKIE = None THEN Raised("KeyError") ELSE Request(environ)

\* What __call__ keeps of the Request that was made.
AfterRequest(environ, made) ==
    /\ request' = IF made.status = "ok" THEN made.value[1] ELSE request
    /\ method' = IF made.status = "ok" THEN environ.REQUEST_METHOD ELSE method
    /\ accepted' = IF made.status = "ok" THEN made.value[1].accept_charset
                   ELSE accepted
    /\ Stepped("Request", made.status, None,
               [After(objects[2], "Request", made.status, <<>>, "match")
                   EXCEPT !.path = IF made.status = "ok"
                                   THEN parse_path(environ.PATH_INFO)
                                   ELSE @])

\* req = request.Request(environ, start_response).
StepRequest ==
    /\ objects[2].pc = "Request"
    /\ AfterRequest(input[1], RequestOf(input[1]))
    /\ UNCHANGED <<broker, requested, offered, endpoint, resource, input>>

\* What __call__ keeps of the route that was found.
AfterMatch(found) ==
    /\ resource' = IF found.status = "ok" THEN found.value[1][1] ELSE resource
    /\ Stepped("match", found.status, found.value,
               [After(objects[2], "match", found.status, <<>>,
                      "negotiate_endpoint")
                   EXCEPT !.args = IF found.status = "ok"
                                   THEN found.value[1][2] ELSE @])

\* resource, args = self.routes.match(req.path).
StepMatch ==
    /\ objects[2].pc = "match"
    /\ AfterMatch(match(objects[1].routes, objects[2].path))
    /\ UNCHANGED <<broker, requested, offered, accepted, request, endpoint,
                   method, input>>

\* What __call__ keeps of a negotiation: the endpoint, or the value under
\* the local name of the statement.
AfterNegotiation(call, out, headers, next) ==
    /\ endpoint' = IF call = "negotiate_endpoint" /\ out.status = "ok"
                   THEN objects[1].endpoint ELSE endpoint
    /\ Stepped(call, out.status, out.value,
               [After(objects[2], call, out.status, headers, next)
                   EXCEPT !.charset = IF call = "negotiate_charset"
                                      THEN out.value ELSE @,
                          !.mimetype = IF call = "negotiate_output"
                                       THEN out.value ELSE @])

\* endpoint = self.broker.negotiate_endpoint(req.method, resource).
StepNegotiateEndpoint ==
    /\ objects[2].pc = "negotiate_endpoint"
    /\ \E iteration \in Iterations(resource.allowed_methods) :
          AfterNegotiation(
              "negotiate_endpoint",
              negotiate_endpoint(broker, method, resource, iteration),
              negotiate_endpoint(broker, method, resource, iteration).headers,
              "negotiate_charset")
    /\ UNCHANGED <<broker, requested, offered, accepted, request, resource,
                   method, input>>

\* charset = self.broker.negotiate_charset(req.accept_charset).
StepNegotiateCharset ==
    /\ objects[2].pc = "negotiate_charset"
    /\ AfterNegotiation("negotiate_charset",
                        negotiate_charset(broker, request.accept_charset),
                        <<>>, "negotiate_output")
    /\ UNCHANGED <<broker, requested, offered, accepted, request, resource,
                   method, input>>

\* mimetype = self.broker.negotiate_output(req, endpoint).
StepNegotiateOutput ==
    /\ objects[2].pc = "negotiate_output"
    /\ AfterNegotiation("negotiate_output",
                        negotiate_output(broker, request, endpoint),
                        <<>>, "negotiate_input")
    /\ UNCHANGED <<broker, requested, offered, accepted, request, resource,
                   method, input>>

\* What __call__ keeps of negotiate_input: the request with its body read
\* when the entity was returned, and the data; `if data is not None` chooses
\* what follows.
AfterNegotiateInput(out) ==
    /\ request' = out.request
    /\ Stepped("negotiate_input", out.status, out.value,
               [After([objects[2] EXCEPT
                          !.calls = IF out.request.body # request.body
                                    THEN Append(@, Called("read", "ok", <<>>))
                                    ELSE @],
                      "negotiate_input", out.status, <<>>,
                      IF out.value # None THEN "process_incoming"
                      ELSE "endpoint")
                   EXCEPT !.data = out.value])

\* data = self.broker.negotiate_input(req, endpoint).
StepNegotiateInput ==
    /\ objects[2].pc = "negotiate_input"
    /\ AfterNegotiateInput(negotiate_input(request, endpoint))
    /\ UNCHANGED <<broker, requested, offered, accepted, endpoint, resource,
                   method, input>>

\* data = self.faucets.process_incoming(req.content_type, Flow(IN, data)):
\* self.faucets_incoming[mimetype].incoming(flow), KeyError when no faucet is
\* registered for the content type.
StepProcessIncoming ==
    /\ objects[2].pc = "process_incoming"
    /\ LET status == IF request.content_type[1] \in objects[1].faucets_incoming
                     THEN "ok" ELSE "KeyError"
       IN  Stepped("process_incoming", status, objects[2].data,
                   After(objects[2], "process_incoming", status, <<>>,
                         "endpoint"))
    /\ UNCHANGED <<broker, requested, offered, accepted, request, endpoint,
                   resource, method, input>>

\* result = endpoint(data, *args, **req.query): the handler returns its
\* result or raises; an HttpMovedException carries its Location header.
StepEndpoint ==
    /\ objects[2].pc = "endpoint"
    /\ LET status == objects[1].handler
           headers == IF status = "HttpMovedException"
                      THEN <<[name |-> "Location", value |-> <<"/">>]>>
                      ELSE <<>>
       IN  Stepped("endpoint", status, None,
                   [After(objects[2], "endpoint", status, headers,
                          "process_outgoing")
                       EXCEPT !.output = IF status = "ok" THEN Some(<<"a">>)
                                         ELSE @])
    /\ UNCHANGED <<broker, requested, offered, accepted, request, endpoint,
                   resource, method, input>>

\* output = self.faucets.process_outgoing(mimetype, Flow(OUT, result, ...)):
\* self.faucets_outgoing[mimetype].outgoing(flow), KeyError when no faucet is
\* registered for the negotiated type.
StepProcessOutgoing ==
    /\ objects[2].pc = "process_outgoing"
    /\ LET status == IF MimeStr(objects[2].mimetype[1])
                            \in objects[1].faucets_outgoing
                     THEN "ok" ELSE "KeyError"
       IN  Stepped("process_outgoing", status, objects[2].output,
                   After(objects[2], "process_outgoing", status, <<>>,
                         "MimeType"))
    /\ UNCHANGED <<broker, requested, offered, accepted, request, endpoint,
                   resource, method, input>>

\* What __call__ keeps of the MimeType that was made.
AfterMimeType(made) ==
    Stepped("MimeType", made.status, made.value,
            [After(objects[2], "MimeType", made.status, <<>>, "Response")
                EXCEPT !.mimetype = IF made.status = "ok" THEN made.value
                                    ELSE @])

\* mimetype = mime.MimeType(mimetype.type, mimetype.subtype,
\* charset=charset.codec.name).
StepMimeType ==
    /\ objects[2].pc = "MimeType"
    /\ AfterMimeType(MimeType_init(
                         objects[2].mimetype[1].type,
                         objects[2].mimetype[1].subtype,
                         <<Param(<<"c", "h", "a", "r", "s", "e", "t">>,
                                 objects[2].charset[1].codec)>>))
    /\ UNCHANGED <<broker, requested, offered, accepted, request, endpoint,
                   resource, method, input>>

\* resp = response.Response(mimetype=mimetype): Response.__init__(self, data,
\* status=None, headers=None, mimetype=None) is called without its required
\* argument data and raises TypeError; resp.serve(start_response), the
\* encoding of the output and the yield that follow are not reached.
StepResponse ==
    /\ objects[2].pc = "Response"
    /\ Stepped("Response", "TypeError", None,
               After(objects[2], "Response", "TypeError", <<>>, "serve"))
    /\ UNCHANGED <<broker, requested, offered, accepted, request, endpoint,
                   resource, method, input>>

\* except response.HttpException as e: e.as_response().serve(start_response).
StepExcept ==
    /\ objects[2].pc = "except"
    /\ Stepped("except", "ok", None,
               [objects[2] EXCEPT
                   !.pc = "done",
                   !.calls = Append(@, serve(as_response(objects[2].raised[1],
                                                         objects[2].headers)))])
    /\ UNCHANGED <<broker, requested, offered, accepted, request, endpoint,
                   resource, method, input>>

NextApplication ==
    \/ StepRequest
    \/ StepMatch
    \/ StepNegotiateEndpoint
    \/ StepNegotiateCharset
    \/ StepNegotiateOutput
    \/ StepNegotiateInput
    \/ StepProcessIncoming
    \/ StepEndpoint
    \/ StepProcessOutgoing
    \/ StepMimeType
    \/ StepResponse
    \/ StepExcept

SpecApplication == InitApplication /\ [][NextApplication]_vars

\* ------------------------------------------------------------- the claims

\* The requested values that contain an offer, by position.
Containing(reqs, offer) == { i \in DOMAIN reqs : Contains(reqs[i], offer) }

\* The quality the RFC 2616 section 14.1 example assigns to each offer.
RFCQuality(offer) ==
    CASE offer = text_html_1 -> Decimal(<<"1">>)
      [] offer = text_html_2 -> Decimal(<<"0", ".", "4">>)
      [] offer = text_html_3 -> Decimal(<<"0", ".", "7">>)
      [] offer = text_html -> Decimal(<<"0", ".", "7">>)
      [] offer = text_plain -> Decimal(<<"0", ".", "3">>)
      [] offer = image_jpeg -> Decimal(<<"0", ".", "5">>)

\* C1: on the RFC 2616 section 14.1 example closest_match returns, for each of
\* the six offers, a requested range of the quality the RFC assigns (1, 0.4,
\* 0.7, 0.7, 0.3, 0.5), and best_offer returns text/html;level=1.
C1_RFCExample ==
    /\ result.op = "closest_match" =>
          /\ result.status = "ok"
          /\ quality(requested[result.idx]).status = "ok"
          /\ DecEq(quality(requested[result.idx]), RFCQuality(result.offer[1]))
    /\ result.op = "best_offer" =>
          /\ result.status = "ok"
          /\ result.value = Some(text_html_1)

\* C1 witness: closest_match was asked about text/plain, which both text/* (0.3)
\* and */* (0.5) contain.
C1_Witness ==
    /\ requested = RFCRequested
    /\ result.op = "closest_match"
    /\ result.offer = Some(text_plain)
    /\ Cardinality(Containing(requested, text_plain)) = 2

\* The quality of the requested value at a position is at least that of every
\* requested value containing the offer.
HighestQuality(reqs, offer, idx) ==
    \A i \in Containing(reqs, offer) :
        ~ DecLt(quality(reqs[idx]), quality(reqs[i]))

Matched(reqs, offs) ==
    { j \in DOMAIN offs : closest_match(reqs, offs[j]).status = "ok" }

MatchedQuality(reqs, offs, j) ==
    quality(reqs[closest_match(reqs, offs[j]).idx])

\* The matched candidates whose matched quality no other one exceeds.
TopOffers(reqs, offs) ==
    { j \in Matched(reqs, offs) :
        \A k \in Matched(reqs, offs) :
            ~ DecLt(MatchedQuality(reqs, offs, j), MatchedQuality(reqs, offs, k)) }

\* C3 as stated: best_offer returns None exactly when no offered candidate is
\* contained by any requested value, and otherwise a member of `offered` whose
\* matched quality is at least that of every other candidate with a match.
C3_BestOffer ==
    result.op = "best_offer" =>
        LET Contained ==
                { j \in DOMAIN offered : Containing(requested, offered[j]) # {} }
        IN  /\ result.status = "ok"
            /\ result.idx = 0 <=> Contained = {}
            /\ result.idx # 0 =>
                  /\ result.idx \in Contained
                  /\ result.value = Some(offered[result.idx])
                  /\ result.idx \in TopOffers(requested, offered)

\* C3 restricted to collections of MimeTypes, where the code does as stated.
C3_BestOfferOfMimeTypes ==
    (\A i \in DOMAIN requested : requested[i].kind = "mime") => C3_BestOffer

\* C4 as stated: when two or more offered candidates attain the same greatest
\* matched quality, best_offer returns the first of them in iteration order.
C4_FirstSeenWins ==
    result.op = "best_offer" =>
        LET Top == TopOffers(requested, offered)
        IN  Cardinality(Top) >= 2 =>
                /\ result.status = "ok"
                /\ result.idx = Min(Top)

\* C4 whenever best_offer returns at all: the first of the tied candidates.
C4_FirstSeenWinsOnReturn ==
    (result.op = "best_offer" /\ result.status = "ok") => C4_FirstSeenWins

\* C5: negotiate_charset(None) returns the Broker's default charset, whatever
\* the supported charsets are, and raises nothing.
C5_AbsentAcceptCharset ==
    (result.op = "negotiate_charset" /\ accepted = None) =>
        /\ result.status = "ok"
        /\ result.value = broker.default_charset

\* C5 witness: negotiate_charset(None) was called on a Broker whose default
\* charset is not among its supported ones.
C5_Witness ==
    /\ result.op = "negotiate_charset"
    /\ accepted = None
    /\ broker.default_charset[1] \notin Range(broker.charsets)

\* C6 as stated: for every present collection of accepted CharacterSets,
\* negotiate_charset either returns a supported charset that an accepted one
\* contains, of greatest matched quality, or raises not-acceptable when no
\* supported charset is contained by an accepted one; nothing else.
C6_NegotiateCharset ==
    (result.op = "negotiate_charset" /\ accepted # None) =>
        LET Contained ==
                { j \in DOMAIN broker.charsets :
                    Containing(accepted[1], broker.charsets[j]) # {} }
        IN  IF Contained = {}
            THEN result.status = "HttpNotAcceptableException"
            ELSE /\ result.status = "ok"
                 /\ result.idx \in Contained
                 /\ result.value = Some(broker.charsets[result.idx])
                 /\ result.idx \in TopOffers(accepted[1], broker.charsets)

\* C6 where no two accepted CharacterSets resolve to one codec: there the
\* code does as stated.
C6_NegotiateCharsetNoAlias ==
    ( /\ accepted # None
      /\ \A i, j \in DOMAIN accepted[1] :
            i # j => accepted[1][i].codec # accepted[1][j].codec )
    => C6_NegotiateCharset

\* C7: negotiate_output returns the Broker's default mimetype when
\* request.accept is absent; otherwise the result of best_offer(request.accept,
\* endpoint.produces): a produced type that an accepted range contains, of
\* greatest matched quality and first among those, and not-acceptable (406)
\* exactly when no produced type is contained by an accepted range.
C7_NegotiateOutput ==
    result.op = "negotiate_output" =>
        IF request.accept = None
        THEN result.status = "ok" /\ result.value = broker.default_mimetype
        ELSE LET accept == request.accept[1]
                 best == best_offer(accept, endpoint.produces)
                 Contained ==
                    { j \in DOMAIN endpoint.produces :
                        Containing(accept, endpoint.produces[j]) # {} }
             IN  IF best.status # "ok" THEN result.status = best.status
                 ELSE /\ best.idx = 0 <=> Contained = {}
                      /\ result.status = "HttpNotAcceptableException"
                            <=> best.idx = 0
                      /\ HttpStatus("HttpNotAcceptableException")
                            = "406 Not Acceptable"
                      /\ best.idx # 0 =>
                            /\ result.status = "ok"
                            /\ result.value = Some(endpoint.produces[best.idx])
                            /\ best.idx
                                  = Min(TopOffers(accept, endpoint.produces))

\* C7 witness: a request whose Accept is present and empty was refused with
\* not-acceptable although the endpoint produces something.
C7_Witness ==
    /\ result.op = "negotiate_output"
    /\ request.accept = Some(<<>>)
    /\ endpoint.produces # <<>>
    /\ result.status = "HttpNotAcceptableException"

\* C8: negotiate_input returns None and leaves the body unread when the
\* request has no content length or no content type; otherwise it raises
\* unsupported-media-type (415), the body still unread, when no member of
\* endpoint.consumes equals the content type; and in the remaining case it
\* returns the entity read_entity reads, the body read that far.
C8_NegotiateInput ==
    [][ result'.op = "negotiate_input" =>
          LET no_input ==
                  request.content_length = None \/ request.content_type = None
              consumed ==
                  \E c \in Range(endpoint.consumes) :
                      MimeStr(c) = request.content_type[1]
          IN  IF no_input
              THEN /\ result'.status = "ok"
                   /\ result'.value = None
                   /\ request' = request
              ELSE IF ~ consumed
              THEN /\ result'.status = "HttpUnsupportedMediaTypeException"
                   /\ HttpStatus(result'.status) = "415 Unsupported Media Type"
                   /\ request' = request
              ELSE /\ result'.status = "ok"
                   /\ result'.value = Some(read_entity(request).bytes)
                   /\ request' = [request EXCEPT !.body = read_entity(request).body]
      ]_vars

\* C8 witness: negotiate_input returned an entity that is not empty, read
\* from the body.
C8_Witness ==
    /\ result.op = "negotiate_input"
    /\ result.status = "ok"
    /\ result.value # None
    /\ result.value[1] # <<>>
    /\ request.body.pos = Len(result.value[1])

\* The items of a text that ', ' separates.
RECURSIVE SplitFrom(_, _)
SplitFrom(text, item) ==
    IF text = <<>> THEN <<item>>
    ELSE IF Len(text) >= 2 /\ text[1] = "," /\ text[2] = " "
    THEN <<item>> \o SplitFrom(SubSeq(text, 3, Len(text)), <<>>)
    ELSE SplitFrom(Tail(text), Append(item, text[1]))

Split(text) == IF text = <<>> THEN <<>> ELSE SplitFrom(text, <<>>)

\* C9: a method outside the Broker's methods raises method-unimplemented
\* (501) whether or not the resource allows it; a method inside them and
\* outside resource.allowed_methods raises method-not-allowed (405) whose
\* Allow header lists each allowed method of the resource once and nothing
\* else.
C9_MethodChecks ==
    result.op = "negotiate_endpoint" =>
        /\ method \notin broker.methods =>
              /\ result.status = "HttpNotImplementedException"
              /\ HttpStatus(result.status) = "501 Not Implemented"
        /\ (method \in broker.methods /\ method \notin resource.allowed_methods) =>
              /\ result.status = "HttpMethodNotAllowedException"
              /\ HttpStatus(result.status) = "405 Method Not Allowed"
              /\ Len(result.headers) = 1
              /\ result.headers[1].name = "Allow"
              /\ LET items == Split(result.headers[1].value)
                 IN  /\ Len(items) = Cardinality(resource.allowed_methods)
                     /\ Range(items) = resource.allowed_methods

\* C9 witness: method-not-allowed was raised for a resource that allows two
\* methods or more.
C9_Witness ==
    /\ result.op = "negotiate_endpoint"
    /\ result.status = "HttpMethodNotAllowedException"
    /\ Cardinality(resource.allowed_methods) >= 2

\* C10: for a method in the Broker's methods and in resource.allowed_methods,
\* negotiate_endpoint returns the attribute of the resource named by the
\* lower-cased method, and raises the internal server error (500) exactly when
\* the resource has no such attribute.
C10_Handler ==
    result.op = "negotiate_endpoint" =>
        LET callable ==
                method \in broker.methods /\ method \in resource.allowed_methods
        IN  /\ (callable /\ Lower(method) \in resource.attrs) =>
                  /\ result.status = "ok"
                  /\ result.value = Some(Lower(method))
            /\ result.status = "HttpInternalServerErrorException"
                  <=> (callable /\ Lower(method) \notin resource.attrs)
            /\ HttpStatus("HttpInternalServerErrorException")
                  = "500 Internal Server Error"

\* C10 witness: the internal server error was raised for a resource that has
\* an attribute under the method's own spelling but none under the lower-cased
\* one.
C10_Witness ==
    /\ result.op = "negotiate_endpoint"
    /\ result.status = "HttpInternalServerErrorException"
    /\ method \in resource.attrs

\* The parameters of a MimeType but its quality, as a set of (key, value).
NonQuality(mimetype) ==
    { <<mimetype.parameters[i].key, mimetype.parameters[i].value>> :
        i \in { k \in DOMAIN mimetype.parameters :
                  mimetype.parameters[k].key # s_q } }

\* C11: */* contains every MimeType; type/* (text/* among them) contains a
\* MimeType exactly when it has that type, so not */*; and a concrete
\* type/subtype does not contain the range type/* of its own type.
C11_WildcardRanges ==
    (result.op = "contains" /\ objects[1].kind = "mime") =>
        LET self == objects[1]
            other == objects[2]
        IN  /\ self.type = s_any => result.value = Some(TRUE)
            /\ (self.type # s_any /\ self.subtype = s_any) =>
                  result.value = Some(other.type = self.type)
            /\ ( /\ self.subtype # s_any
                 /\ other.type = self.type
                 /\ other.subtype = s_any ) => result.value = Some(FALSE)

\* C11 witness: text/* was asked for a type that is not text, and does not
\* contain it.
C11_Witness ==
    /\ result.op = "contains"
    /\ objects[1].kind = "mime"
    /\ objects[1].type = s_text
    /\ objects[1].subtype = s_any
    /\ objects[2].type = s_image
    /\ result.value = Some(FALSE)

\* C12 as stated: for MimeTypes self and other of one type and subtype,
\* self contains other when the parameters of self but the quality are among
\* those of other; self does not contain other when self has a parameter,
\* not the quality, that other has not; and the qualities change nothing.
C12_ParameterSubset ==
    ( /\ result.op = "contains"
      /\ objects[1].kind = "mime"
      /\ objects[1].type = objects[2].type
      /\ objects[1].subtype = objects[2].subtype ) =>
        LET self == objects[1]
            other == objects[2]
        IN  /\ NonQuality(self) \subseteq NonQuality(other) =>
                  result.value = Some(TRUE)
            /\ (\E p \in NonQuality(self) :
                    \A o \in NonQuality(other) : o[1] # p[1]) =>
                  result.value = Some(FALSE)
            /\ \A s, o \in MimeTypes :
                  ( /\ s.type = self.type /\ s.subtype = self.subtype
                    /\ o.type = other.type /\ o.subtype = other.subtype
                    /\ NonQuality(s) = NonQuality(self)
                    /\ NonQuality(o) = NonQuality(other) ) =>
                      result.value = Some(MimeContains(s, o))

\* C12 as amended: the same, where the second part is said of a subtype that
\* is not the wildcard only; a range */* or type/* contains whatever its
\* parameters are.
C12_ParameterSubsetOfConcrete ==
    ( /\ result.op = "contains"
      /\ objects[1].kind = "mime"
      /\ objects[1].type = objects[2].type
      /\ objects[1].subtype = objects[2].subtype ) =>
        LET self == objects[1]
            other == objects[2]
        IN  /\ NonQuality(self) \subseteq NonQuality(other) =>
                  result.value = Some(TRUE)
            /\ ( /\ self.subtype # s_any
                 /\ \E p \in NonQuality(self) :
                       \A o \in NonQuality(other) : o[1] # p[1] ) =>
                  result.value = Some(FALSE)
            /\ self.subtype = s_any => result.value = Some(TRUE)
            /\ \A s, o \in MimeTypes :
                  ( /\ s.type = self.type /\ s.subtype = self.subtype
                    /\ o.type = other.type /\ o.subtype = other.subtype
                    /\ NonQuality(s) = NonQuality(self)
                    /\ NonQuality(o) = NonQuality(other) ) =>
                      result.value = Some(MimeContains(s, o))

\* C12 witness: a concrete type with a parameter and a quality was asked for
\* the same type without the parameter, and does not contain it.
C12_Witness ==
    /\ result.op = "contains"
    /\ objects[1].kind = "mime"
    /\ objects[1].type = objects[2].type
    /\ objects[1].subtype = objects[2].subtype
    /\ objects[1].subtype # s_any
    /\ HasKey(objects[1].parameters, s_q)
    /\ NonQuality(objects[1]) # {}
    /\ NonQuality(objects[2]) = {}
    /\ result.value = Some(FALSE)

\* C13 as stated: `>` of MimeTypes is a strict partial order: no MimeType is
\* more specific than itself, no two are each more specific than the other,
\* and more specific than a MimeType that is more specific than a third is
\* more specific than the third.
C13_StrictPartialOrder ==
    (result.op = "gt" /\ objects[1].kind = "mime") =>
        LET self == objects[1]
            other == objects[2]
        IN  /\ self = other => result.value = Some(FALSE)
            /\ result.value = Some(TRUE) =>
                  /\ ~ MimeGt(other, self)
                  /\ \A third \in MimeTypes :
                        MimeGt(other, third) => MimeGt(self, third)

\* C13 among the MimeTypes that are no range with parameters: there `>` is a
\* strict partial order.
C13_StrictPartialOrderOfPlainRanges ==
    LET Plain(x) == x.subtype = s_any => NonQuality(x) = {}
    IN  (result.op = "gt" /\ objects[1].kind = "mime") =>
            LET self == objects[1]
                other == objects[2]
            IN  (Plain(self) /\ Plain(other)) =>
                    /\ self = other => result.value = Some(FALSE)
                    /\ result.value = Some(TRUE) =>
                          /\ ~ MimeGt(other, self)
                          /\ \A third \in MimeTypes :
                                (Plain(third) /\ MimeGt(other, third))
                                    => MimeGt(self, third)

\* The number of parameters of a MimeType, its quality not counted.
NonQualityCount(mimetype) ==
    Cardinality({ k \in DOMAIN mimetype.parameters :
                    mimetype.parameters[k].key # s_q })

\* The chain of tests/test_negotiation.py, the least specific first.
SpecificityChain ==
    << MimeType(s_any, s_any, <<>>),
       MimeType(s_text, s_any, <<>>),
       MimeType(s_text, s_plain, <<>>),
       MimeType(s_text, s_plain, <<Param(s_foo, s_x)>>),
       MimeType(s_text, s_plain, <<Param(s_foo, s_x), Param(s_bar, s_y)>>) >>

\* C14: self is more specific than other when other has the wildcard type
\* and self has not, or other has the wildcard subtype and self has not, and
\* otherwise exactly when self has more parameters, the quality not counted;
\* so each member of the chain */* , text/*, text/plain, text/plain;foo=x,
\* text/plain;foo=x;bar=y is more specific than the one before it.
C14_Specificity ==
    (result.op = "gt" /\ objects[1].kind = "mime") =>
        LET self == objects[1]
            other == objects[2]
            wildcard ==
                \/ other.type = s_any /\ self.type # s_any
                \/ other.subtype = s_any /\ self.subtype # s_any
        IN  /\ result.status = "ok"
            /\ wildcard => result.value = Some(TRUE)
            /\ ~ wildcard =>
                  result.value =
                      Some(NonQualityCount(self) > NonQualityCount(other))
            /\ \A i \in 1..(Len(SpecificityChain) - 1) :
                  ( /\ self = SpecificityChain[i + 1]
                    /\ other = SpecificityChain[i] ) =>
                      result.value = Some(TRUE)

\* C14 witness: a MimeType with one parameter and a quality was compared
\* with one of one parameter and no quality, and is not more specific.
C14_Witness ==
    /\ result.op = "gt"
    /\ objects[1].kind = "mime"
    /\ objects[1].subtype # s_any
    /\ objects[2].subtype # s_any
    /\ Len(objects[1].parameters) = 2
    /\ HasKey(objects[1].parameters, s_q)
    /\ Len(objects[2].parameters) = 1
    /\ ~ HasKey(objects[2].parameters, s_q)
    /\ result.value = Some(FALSE)

\* The thousandths in what a text of QualityTexts writes.
Thousandths(text) ==
    CASE text = <<"1">> -> 1000
      [] text = <<"0">> -> 0
      [] text = <<"0", ".", "5">> -> 500
      [] text = <<"0", ".", "5", "0">> -> 500
      [] text = <<"1", ".", "0", "0", "0">> -> 1000
      [] text = <<"0", ".", "3">> -> 300
      [] text = <<"2">> -> 2000
      [] text = <<"1", ".", "5">> -> 1500
      [] text = <<"-", "1">> -> 0 - 1000

\* The thousandths in a decimal of at most three places.
InThousandths(d) == d.sign * d.coef * Pow10(d.exp + 3)

\* C15: the quality of a MimeType or CharacterSet without a q parameter is
\* exactly 1, and with a q parameter that writes a decimal it is exactly that
\* decimal: it equals the quality another text gives exactly when the two
\* texts write the same number, and is less exactly when it writes less.
C15_ExactQuality ==
    (result.op = "quality" /\ objects # <<>>) =>
        LET parameters == objects[1].parameters
            text == GetItem(parameters, s_q)
        IN  /\ ~ HasKey(parameters, s_q) =>
                  /\ result.status = "ok"
                  /\ InThousandths(result.value[1]) = 1000
            /\ (HasKey(parameters, s_q) /\ text # s_abc) =>
                  /\ result.status = "ok"
                  /\ InThousandths(result.value[1]) = Thousandths(text)
                  /\ \A other \in QualityTexts \ {s_abc} :
                        /\ DecEq(result.value[1], Decimal(other))
                              <=> Thousandths(text) = Thousandths(other)
                        /\ DecLt(result.value[1], Decimal(other))
                              <=> Thousandths(text) < Thousandths(other)

\* C15 witness: the quality of a value whose q is written 0.50 was read.
C15_Witness ==
    /\ result.op = "quality"
    /\ objects # <<>>
    /\ HasKey(objects[1].parameters, s_q)
    /\ GetItem(objects[1].parameters, s_q) = <<"0", ".", "5", "0">>
    /\ result.status = "ok"

\* C16 as stated: the quality of every MimeType or CharacterSet that was
\* constructed or parsed is a decimal from 0 to 1.
C16_QualityInRange ==
    (result.op = "quality" /\ objects # <<>>) =>
        /\ result.status = "ok"
        /\ 0 <= InThousandths(result.value[1])
        /\ InThousandths(result.value[1]) <= 1000

\* C16 where the q that was given writes a decimal from 0 to 1, or none was
\* given: there the quality is in range.
C16_QualityInRangeOfValidQ ==
    ( /\ objects # <<>>
      /\ HasKey(objects[1].parameters, s_q) =>
            GetItem(objects[1].parameters, s_q) \in
                { <<"1">>, <<"0">>, <<"0", ".", "5">>, <<"0", ".", "5", "0">>,
                  <<"1", ".", "0", "0", "0">>, <<"0", ".", "3">> } )
    => C16_QualityInRange

\* The token grammar: one character or more, none of them a control, a space
\* or one of ( ) < > @ , ; : \ " / [ ] ? =.
TokenGrammar(text) ==
    /\ text # <<>>
    /\ \A i \in DOMAIN text :
          text[i] \notin
              {"\t", "\n", "\r", " ", "(", ")", "<", ">", "@", ",", ";", ":",
               "\\", "\"", "/", "[", "]", "?", "="}

\* C17 as stated: MimeType(...) and MimeType.parse(...) return a value only
\* if its type and subtype are tokens, its type is '*', a registered media
\* type or begins with 'x-', and a type '*' comes with the subtype '*'; a
\* call that fails leaves no value.
C17_ValidMimeType ==
    result.op \in {"MimeType", "MimeType.parse"} =>
        IF result.status = "ok"
        THEN /\ objects = <<result.value[1]>>
             /\ TokenGrammar(objects[1].type)
             /\ TokenGrammar(objects[1].subtype)
             /\ \/ objects[1].type = s_any
                \/ objects[1].type \in MEDIA_TYPES
                \/ StartsWith(Lower(objects[1].type), <<"x", "-">>)
             /\ objects[1].type = s_any => objects[1].subtype = s_any
        ELSE result.value = None /\ objects = <<>>

\* C17 of MimeType.parse alone, whose pattern leaves the line feed that ends
\* a text out of the type and the subtype: there the claim holds.
C17_ValidParsedMimeType ==
    result.op = "MimeType.parse" => C17_ValidMimeType

\* C18 as stated: two MimeTypes of the same type, subtype and set of
\* parameters are equal, and their string forms, which are what is hashed,
\* are the same, whatever the order of the parameters.
C18_OrderInsensitiveEquality ==
    ( /\ result.op = "eq"
      /\ objects[1].type = objects[2].type
      /\ objects[1].subtype = objects[2].subtype
      /\ Range(objects[1].parameters) = Range(objects[2].parameters) ) =>
        /\ result.value = Some(TRUE)
        /\ MimeStr(objects[1]) = MimeStr(objects[2])

\* C18 where the parameters are in the same order: such MimeTypes are equal.
C18_EqualityInOneOrder ==
    (result.op = "eq" /\ objects[1] = objects[2]) =>
        result.value = Some(TRUE)

\* The MimeType a piece of an Accept header is parsed to.
Parsed(piece) == MimeType_parse(Strip(piece)).value[1]

\* C19 as stated: the string form of a MimeType holds its quality when it
\* has one, so that two MimeTypes of an Accept header that differ in their
\* quality only have different string forms, are not equal, and are two
\* members of the set of accepted types.
C19_QualityInStringForm ==
    ( /\ result.op = "Request"
      /\ result.status = "ok"
      /\ request.accept # None ) =>
        LET pieces == SplitOn(input[1].HTTP_ACCEPT[1], ",", <<>>)
        IN  \A i, j \in DOMAIN pieces :
                ( /\ Parsed(pieces[i]).type = Parsed(pieces[j]).type
                  /\ Parsed(pieces[i]).subtype = Parsed(pieces[j]).subtype
                  /\ NonQuality(Parsed(pieces[i]))
                        = NonQuality(Parsed(pieces[j]))
                  /\ Parsed(pieces[i]) # Parsed(pieces[j]) ) =>
                    /\ MimeStr(Parsed(pieces[i])) # MimeStr(Parsed(pieces[j]))
                    /\ ~ MimeEq(Parsed(pieces[i]), Parsed(pieces[j]))
                    /\ Parsed(pieces[i]) \in Range(request.accept[1])
                    /\ Parsed(pieces[j]) \in Range(request.accept[1])

\* C19 where the MimeTypes have a parameter besides the quality: there the
\* string form holds the quality and the two are two members.
C19_QualityInStringFormWithParameters ==
    ( /\ result.op = "Request"
      /\ result.status = "ok"
      /\ request.accept # None ) =>
        LET pieces == SplitOn(input[1].HTTP_ACCEPT[1], ",", <<>>)
        IN  ( \A i \in DOMAIN pieces : NonQuality(Parsed(pieces[i])) # {} )
            => C19_QualityInStringForm

\* The names that are names of one codec.
Aliases ==
    { {s_ascii, s_iso_ir_6, s_us_ascii}, {s_utf_8, s_utf8},
      {s_latin_1, s_iso_8859_1}, {s_utf_16} }

\* C20: a CharacterSet contains another exactly when the names of the two
\* are names of one codec, whatever their qualities; so the other contains
\* it as well, and 'ascii' and 'iso-ir-6' contain each other.
C20_CharsetContainment ==
    (result.op = "contains" /\ objects[1].kind = "charset") =>
        LET self == objects[1]
            other == objects[2]
        IN  /\ result.value =
                  Some(\E names \in Aliases :
                          self.name \in names /\ other.name \in names)
            /\ result.value = Some(CharsetContains(other, self))
            /\ {self.name, other.name} = {s_ascii, s_iso_ir_6} =>
                  result.value = Some(TRUE)

\* C20 witness: the CharacterSet of 'ascii' was asked for that of 'iso-ir-6'
\* of another quality, and contains it.
C20_Witness ==
    /\ result.op = "contains"
    /\ objects[1].kind = "charset"
    /\ objects[1].name = s_ascii
    /\ objects[2].name = s_iso_ir_6
    /\ quality(objects[1]) # quality(objects[2])
    /\ result.value = Some(TRUE)

\* The name of a charset expression, all before its first ';', and the
\* parameters written after it.
ExpressionName(encoded) ==
    LET semis == { k \in DOMAIN encoded : encoded[k] = ";" }
    IN  IF semis = {} THEN encoded ELSE SubSeq(encoded, 1, Min(semis) - 1)

ExpressionParameters(encoded) ==
    SubSeq(encoded, Len(ExpressionName(encoded)) + 1, Len(encoded))

\* A charset expression is malformed when its name is no token or when its
\* parameters do not parse.
Malformed(encoded) ==
    \/ ~ TokenGrammar(ExpressionName(encoded))
    \/ MimeParameters(Some(ExpressionParameters(encoded))).status # "ok"

\* C21 as stated: CharacterSet.parse of a malformed expression raises
\* ValueError, never LookupError, and CharacterSet.parse of a well-formed
\* expression whose name resolves to no codec raises LookupError.
C21_ParseErrorKinds ==
    result.op = "CharacterSet.parse" =>
        /\ Malformed(input[1].args[1]) => result.status = "ValueError"
        /\ (/\ ~ Malformed(input[1].args[1])
            /\ codecs_lookup(ExpressionName(input[1].args[1])) = None)
              => result.status = "LookupError"

\* C21 where the name is checked before the parameters are: a name that is
\* no token raises ValueError, a token that resolves to no codec raises
\* LookupError whatever comes after it, and malformed parameters after a
\* known name raise ValueError.
C21_ParseErrorKindsNameFirst ==
    result.op = "CharacterSet.parse" =>
        LET name == ExpressionName(input[1].args[1])
        IN  IF ~ TokenGrammar(name) THEN result.status = "ValueError"
            ELSE IF codecs_lookup(name) = None
            THEN result.status = "LookupError"
            ELSE IF Malformed(input[1].args[1])
            THEN result.status = "ValueError"
            ELSE result.status = "ok"

\* The elements of the Accept-Charset header of the request that was made.
AcceptCharsetElements ==
    LET pieces == SplitOn(input[1].HTTP_ACCEPT_CHARSET[1], ",", <<>>)
    IN  [i \in DOMAIN pieces |-> Strip(pieces[i])]

\* The names of the elements that name a known charset, in the order of the
\* header.
RECURSIVE KnownNames(_)
KnownNames(elements) ==
    IF elements = <<>> THEN <<>>
    ELSE (IF codecs_lookup(ExpressionName(elements[1])) = None THEN <<>>
          ELSE <<ExpressionName(elements[1])>>)
         \o KnownNames(Tail(elements))

\* The rest of the request raises nothing: the Content-Length and the Accept
\* header are well-formed or absent.
RestWellFormed ==
    /\ \/ input[1].CONTENT_LENGTH \in {None, Some(<<>>)}
       \/ ParseInt(input[1].CONTENT_LENGTH[1]).status = "ok"
    /\ \/ input[1].HTTP_ACCEPT = None
       \/ ParseAccept(SplitOn(input[1].HTTP_ACCEPT[1], ",", <<>>), <<>>).status
              = "ok"

\* C22 as stated: a request whose Accept-Charset header has a malformed
\* element is rejected with HttpBadRequestException; otherwise the request
\* is made and its accept_charset holds one CharacterSet for every element
\* that names a known charset and none for the others.
C22_AcceptCharsetList ==
    (/\ result.op = "Request"
     /\ input[1].HTTP_ACCEPT_CHARSET # None
     /\ RestWellFormed)
    => IF \E i \in DOMAIN AcceptCharsetElements :
              Malformed(AcceptCharsetElements[i])
       THEN result.status = "HttpBadRequestException"
       ELSE /\ result.status = "ok"
            /\ request.accept_charset # None
            /\ [i \in DOMAIN request.accept_charset[1] |->
                   request.accept_charset[1][i].name]
                 = KnownNames(AcceptCharsetElements)

\* C22 for headers none of whose elements has an unknown name followed by
\* malformed parameters: there the claim holds.
C22_AcceptCharsetListNameFirst ==
    (/\ input[1].HTTP_ACCEPT_CHARSET # None
     /\ \A i \in DOMAIN AcceptCharsetElements :
           LET name == ExpressionName(AcceptCharsetElements[i])
           IN  ~ (/\ TokenGrammar(name)
                  /\ codecs_lookup(name) = None
                  /\ Malformed(AcceptCharsetElements[i])))
    => C22_AcceptCharsetList

\* The (key, value) pairs of a parameter map.
Pairs(parameters) ==
    { <<parameters.values[i].key, parameters.values[i].value>> :
        i \in DOMAIN parameters.values }

\* C23 as stated: MimeParameters(str(P)) raises nothing and has the (key,
\* value) pairs of P, whether P was parsed or given by keyword arguments.
C23_RoundTrip ==
    result.op = "MimeParameters(str)" =>
        /\ result.status = "ok"
        /\ Len(objects) = 2
        /\ Pairs(objects[2]) = Pairs(objects[1])

\* A value the round trip loses: one that holds a ';', a carriage return no
\* line feed follows, or, after a token character, a line feed that ends it.
Lost(value) ==
    \/ \E i \in DOMAIN value : value[i] = ";"
    \/ \E i \in DOMAIN value :
          value[i] = "\r" /\ (i = Len(value) \/ value[i + 1] # "\n")
    \/ IsToken(value) /\ value[Len(value)] = "\n"

\* C23 for the parameter maps none of whose values is such a value: there
\* the round trip holds.
C23_RoundTripOfOtherValues ==
    (/\ objects # <<>>
     /\ \A i \in DOMAIN objects[1].values : ~ Lost(objects[1].values[i].value))
    => C23_RoundTrip

\* What a call returned or raised.
Returns(r) == <<r.status, r.idx, r.value>>

\* The call of this step has the operation and the arguments of the call
\* before it.  (The arguments but the offer of closest_match are the state.)
Repeated == result'.op = result.op /\ result'.offer = result.offer

CookieParts(self, name) ==
    IF HasKey(self.cookies, name)
    THEN SplitOn(GetItem(self.cookies, name), "|", <<>>)
    ELSE <<>>

\* The cookie of this name is value|timestamp|signature, the signature the
\* digest of name|value|timestamp under the key of the manager.
Signed(self, name) ==
    /\ Len(CookieParts(self, name)) = 3
    /\ CookieParts(self, name)[3]
         = Hexdigest(self.key[1],
                     JoinBar(<<name, CookieParts(self, name)[1],
                               CookieParts(self, name)[2]>>))

\* Of a step that calls get_signed_cookie on a manager with a key, for a
\* cookie that is absent or is not signed so: it returns None.
UnsignedIsNone ==
    (/\ result'.op = "get_signed_cookie"
     /\ objects[1].key # None
     /\ ~ Signed(objects[1], input'[1].args[1]))
    => result'.status = "ok" /\ result'.value = None

\* Of a step that calls get_signed_cookie(name) right after a
\* set_signed_cookie(name, v) that returned: it returns v.  Of a step that
\* calls set_signed_cookie on a manager without a key: it raises
\* InvalidOperationException and leaves the cookies as they are.
SignedIsRead ==
    /\ (/\ result.op = "set_signed_cookie"
        /\ result.status = "ok"
        /\ result'.op = "get_signed_cookie"
        /\ input'[1].args[1] = input[1].args[1])
       => result'.status = "ok" /\ result'.value = Some(input[1].args[2])
    /\ (result'.op = "set_signed_cookie" /\ objects[1].key = None)
       => /\ result'.status = "InvalidOperationException"
          /\ objects' = objects

\* C25 as stated: get_signed_cookie returns what set_signed_cookie signed
\* under the same key; it returns None for a cookie that is absent, unsigned
\* or not signed with the digest of its name, value and timestamp under the
\* key; signing without a key raises InvalidOperationException and stores
\* nothing.
C25_SignedCookies == [][SignedIsRead /\ UnsignedIsNone]_vars

\* C25 but for the cookies of three parts whose second part is no integer:
\* for every other cookie the claim holds.
C25_SignedCookiesWithTimestamp ==
    [][ /\ SignedIsRead
        /\ (\/ result'.op # "get_signed_cookie"
            \/ Len(CookieParts(objects[1], input'[1].args[1])) # 3
            \/ ParseInt(CookieParts(objects[1], input'[1].args[1])[2]).status
                  = "ok")
           => UnsignedIsNone ]_vars

\* The value the manager holds for a name, None when it holds none.
Stored(self, name) ==
    IF \E i \in DOMAIN self.cookies : self.cookies[i].key = name
    THEN Some(self.cookies[CHOOSE i \in DOMAIN self.cookies :
                               self.cookies[i].key = name].value)
    ELSE None

\* C26: on a read-only manager set_cookie and set_signed_cookie raise
\* InvalidOperationException and no call changes the cookies, so that
\* get_cookie returns the loaded values; on a writable manager
\* set_cookie(name, v) makes v the value of name and leaves the other names
\* as they are, and get_cookie(name) changes nothing and returns the value
\* of name, which is the value set last (right after set_cookie(name, v) it
\* is v), or None for a name that was never set.
C26_ReadOnlyAndWritable ==
    [][ /\ objects[1].ro =>
              /\ objects' = objects
              /\ result'.op \in {"set_cookie", "set_signed_cookie"}
                    => result'.status = "InvalidOperationException"
        /\ (~ objects[1].ro /\ result'.op = "set_cookie") =>
              /\ result'.status = "ok"
              /\ \A name \in CookieNames :
                    Stored(objects'[1], name)
                      = IF name = input'[1].args[1]
                        THEN Some(input'[1].args[2])
                        ELSE Stored(objects[1], name)
        /\ result'.op = "get_cookie" =>
              /\ objects' = objects
              /\ result'.status = "ok"
              /\ result'.value = Stored(objects[1], input'[1].args[1])
        /\ (/\ result.op = "set_cookie"
            /\ result.status = "ok"
            /\ result'.op = "get_cookie"
            /\ input'[1].args[1] = input[1].args[1])
           => result'.value = Some(input[1].args[2]) ]_vars

\* C26 witness: set_signed_cookie raised InvalidOperationException on a
\* read-only manager that has a key and holds cookies.
C26_Witness ==
    /\ result.op = "set_signed_cookie"
    /\ result.status = "InvalidOperationException"
    /\ objects[1].kind = "cookies"
    /\ objects[1].ro
    /\ objects[1].key # None
    /\ objects[1].cookies # <<>>

\* The routes, by their place in the table, whose pattern matches a path.
MatchingRoutes(routes, path) ==
    { i \in DOMAIN routes : re_match(routes[i].pattern, path, <<>>) # None }

\* C27: add puts the route after the routes there are, and match changes
\* nothing; match(path) returns the resource and the groups of the first
\* route in the table (the one added earliest) whose pattern matches the
\* path, and raises HttpNotFoundException exactly when no route matches.
C27_EarliestRoute ==
    [][ /\ result'.op = "add" =>
              /\ Len(objects'[1].routes) = Len(objects[1].routes) + 1
              /\ SubSeq(objects'[1].routes, 1, Len(objects[1].routes))
                   = objects[1].routes
              /\ objects'[1].routes[Len(objects'[1].routes)]
                   = [pattern |-> input'[1].args[1],
                      resource |-> input'[1].args[2]]
        /\ result'.op = "match" =>
              LET routes == objects[1].routes
                  path == input'[1].args[1]
                  matching == MatchingRoutes(routes, path)
              IN  /\ objects' = objects
                  /\ IF matching = {}
                     THEN result'.status = "HttpNotFoundException"
                     ELSE /\ result'.status = "ok"
                          /\ result'.value[1][1] = routes[Min(matching)].resource
                          /\ result'.value[1][2]
                               = re_match(routes[Min(matching)].pattern, path,
                                          <<>>)[1] ]_vars

\* C27 witness: match returned the resource of the first of two routes that
\* both match the path, with a group.
C27_Witness ==
    /\ result.op = "match"
    /\ result.status = "ok"
    /\ objects[1].kind = "routes"
    /\ Cardinality(MatchingRoutes(objects[1].routes, input[1].args[1])) = 2
    /\ objects[1].routes[1].resource # objects[1].routes[2].resource
    /\ result.value[1][1] = objects[1].routes[1].resource
    /\ result.value[1][2] # <<>>

\* The orders in which the values of a list can stand.
Orders(reqs) ==
    { p \in DistinctSeqs(Range(reqs), Len(reqs)) : Len(p) = Len(reqs) }

\* C28: for requested MimeTypes of which at least one contains the offer,
\* closest_match returns a requested value that contains the offer such that
\* no other requested value containing the offer is more specific ('>') than
\* it, and the quality of the value returned is the same in whatever order
\* the requested values stand.
C28_MostSpecificMatch ==
    (result.op = "closest_match" /\ result.offer[1].kind = "mime") =>
        LET offer == result.offer[1]
            M == Containing(requested, offer)
            r == result.idx
        IN  M # {} =>
                /\ result.status = "ok"
                /\ r \in M
                /\ result.value = Some(requested[r])
                /\ \A i \in M : ~ MimeGt(requested[i], requested[r])
                /\ \A p \in Orders(requested) :
                      LET other == closest_match(p, offer)
                      IN  /\ other.status = "ok"
                          /\ quality(p[other.idx]) = quality(requested[r])

\* C30: best_offer never returns an offer whose closest match has quality 0.
C30_NeverQualityZero ==
    (result.op = "best_offer" /\ result.status = "ok" /\ result.idx # 0) =>
        LET closest == closest_match(requested, offered[result.idx])
        IN  /\ closest.status = "ok"
            /\ DecLt(Decimal(<<"0">>), quality(requested[closest.idx]))

\* The steps of Application.__call__ in the order C29 gives them.
StepOrder ==
    <<"match", "negotiate_endpoint", "negotiate_charset", "negotiate_output",
      "negotiate_input", "endpoint", "Response">>

\* The positions in the calls made so far at which `call` stands.
CallsOf(call) ==
    { i \in DOMAIN objects[2].calls : objects[2].calls[i].call = call }

\* `call` returned before position i of the calls made so far.
SucceededBefore(call, i) ==
    \E k \in CallsOf(call) : k < i /\ objects[2].calls[k].status = "ok"

\* The steps ran in the order of StepOrder, the handler was called at most
\* once and only after the four negotiations succeeded, and the body was read
\* only after endpoint, charset and output negotiation succeeded.
StepsInOrder ==
    /\ \A a, b \in DOMAIN StepOrder :
          a < b => \A i \in CallsOf(StepOrder[a]), j \in CallsOf(StepOrder[b]) :
                      i < j
    /\ Cardinality(CallsOf("endpoint")) <= 1
    /\ \A i \in CallsOf("endpoint") :
          /\ SucceededBefore("negotiate_endpoint", i)
          /\ SucceededBefore("negotiate_charset", i)
          /\ SucceededBefore("negotiate_output", i)
          /\ SucceededBefore("negotiate_input", i)
    /\ \A i \in CallsOf("read") :
          /\ SucceededBefore("negotiate_endpoint", i)
          /\ SucceededBefore("negotiate_charset", i)
          /\ SucceededBefore("negotiate_output", i)

\* The positions at which a step raised an HttpException.
HttpRaised ==
    { i \in DOMAIN objects[2].calls :
        IsHttpException(objects[2].calls[i].status) }

\* start_response was invoked at most once, and when __call__ has ended after
\* an HttpException exactly once, with the status of that exception.
ServedOnce ==
    /\ Cardinality(CallsOf("start_response")) <= 1
    /\ \A i \in HttpRaised :
          objects[2].pc = "done" =>
              /\ Cardinality(CallsOf("start_response")) = 1
              /\ \A k \in CallsOf("start_response") :
                    objects[2].calls[k].status
                        = HttpStatus(objects[2].calls[i].status)

\* C29 as stated: in Application.__call__ the steps run in the order route
\* match, negotiate_endpoint, negotiate_charset, negotiate_output,
\* negotiate_input, handler call, response; the handler is called at most
\* once and only after all four negotiations succeeded; the body is read only
\* after endpoint, charset and output negotiation succeeded; and when any
\* step raises an HttpException the handler is not called and start_response
\* is invoked exactly once with that exception's status.
C29_StepsAndHttpExceptions ==
    /\ StepsInOrder
    /\ ServedOnce
    /\ HttpRaised # {} => CallsOf("endpoint") = {}

\* C29 amended: as stated, except that the handler is not called when a step
\* before the handler call raises an HttpException; an HttpException that
\* the handler call itself raises is served like the others, start_response
\* being invoked exactly once with its status.
C29_StepsAndHttpExceptionsBeforeHandler ==
    /\ StepsInOrder
    /\ ServedOnce
    /\ (\E i \in HttpRaised : objects[2].calls[i].call # "endpoint")
          => CallsOf("endpoint") = {}

\* C29 witness: __call__ has ended after the handler, called once after the
\* four negotiations, raised an HttpException, and start_response was invoked
\* once with the status of that exception.
C29_Witness ==
    /\ objects[2].pc = "done"
    /\ \E i \in HttpRaised :
          /\ objects[2].calls[i].call = "endpoint"
          /\ \E k \in CallsOf("start_response") :
                objects[2].calls[k].status
                    = HttpStatus(objects[2].calls[i].status)
    /\ CallsOf("read") # {}

====
